---- MODULE Spec2Model ----
(***************************************************************************)
(* Voice-biometric core of voice-id-secure: the MFCC voice signature, the  *)
(* enrollment aggregator, the strict verifier, the signature codec and the *)
(* deepfake classifier, together with the verification path of the         *)
(* recorder hook and the dashboard.                                        *)
(*                                                                         *)
(* JavaScript numbers are modelled as binary floating-point values with    *)
(* SigBits significant bits and a smallest step of 2^-FracBits, rounded to *)
(* nearest, ties to even, after every operation, as IEEE 754 arithmetic    *)
(* does with 53 bits.  A finite number is held as the integer k that       *)
(* stands for k / 2^FracBits; NaN and the infinities are three values      *)
(* outside the finite range.                                               *)
(***************************************************************************)
EXTENDS Integers, Sequences, FiniteSets, TLC

VARIABLES pc, call, ret, recorder, dashboard, trace, tables, heap

vars == <<pc, call, ret, recorder, dashboard, trace, tables, heap>>

(***************************************************************************)
(* Floating-point arithmetic                                               *)
(***************************************************************************)
FracBits == 11
SigBits == 11

One == 2^FracBits
PosInf == 2^30
NegInf == 0 - 2^30
NaN == 2^30 + 1

IsNaN(x) == x = NaN
IsFinite(x) == x > NegInf /\ x < PosInf

Abs(n) == IF n < 0 THEN 0 - n ELSE n

\* body(x) with x the value of e, computed once (a const declaration)
Bind(e, body(_)) == CHOOSE r \in {body(x) : x \in {e}} : TRUE

RECURSIVE BitLen(_)
BitLen(n) == IF n = 0 THEN 0 ELSE 1 + BitLen(n \div 2)

\* n / d (d > 0), an exact rational in steps of 2^-FracBits, rounded to the
\* nearest value with SigBits significant bits, ties to even.
RoundRat(n, d) ==
    Bind(BitLen(Abs(n) \div d), LAMBDA bl :
    Bind(IF bl > SigBits THEN d * 2^(bl - SigBits) ELSE d, LAMBDA D :
    Bind(Abs(n) \div D, LAMBDA fl :
    Bind(Abs(n) - fl * D, LAMBDA rem :
    Bind(IF 2 * rem < D THEN fl
         ELSE IF 2 * rem > D THEN fl + 1
         ELSE IF fl % 2 = 0 THEN fl ELSE fl + 1, LAMBDA r :
         IF n < 0 THEN 0 - r * (D \div d) ELSE r * (D \div d))))))

\* the number literal n/d of the source (0.88 is Dec(88, 100))
Dec(n, d) == RoundRat(n * One, d)
Num(n) == n * One

Sign(a) == IF a < 0 THEN 0 - 1 ELSE IF a > 0 THEN 1 ELSE 0

FAdd(a0, b0) ==
    Bind(a0, LAMBDA a : Bind(b0, LAMBDA b :
        IF IsNaN(a) \/ IsNaN(b) THEN NaN
        ELSE IF a = PosInf THEN (IF b = NegInf THEN NaN ELSE PosInf)
        ELSE IF a = NegInf THEN (IF b = PosInf THEN NaN ELSE NegInf)
        ELSE IF ~IsFinite(b) THEN b
        ELSE RoundRat(a + b, 1)))

FNeg(a0) == Bind(a0, LAMBDA a : IF IsNaN(a) THEN NaN ELSE 0 - a)

FSub(a, b) == FAdd(a, FNeg(b))

FMul(a0, b0) ==
    Bind(a0, LAMBDA a : Bind(b0, LAMBDA b :
        IF IsNaN(a) \/ IsNaN(b) THEN NaN
        ELSE IF ~IsFinite(a) \/ ~IsFinite(b)
             THEN (IF a = 0 \/ b = 0 THEN NaN
                   ELSE IF Sign(a) = Sign(b) THEN PosInf ELSE NegInf)
        ELSE RoundRat(a * b, One)))

\* the largest power of two, at most 2^FracBits, that divides b (b > 0)
RECURSIVE CommonPow2(_, _)
CommonPow2(b, g) ==
    IF g < One /\ b % (2 * g) = 0 THEN CommonPow2(b, 2 * g) ELSE g

\* a / b is the rational (a * 2^FracBits) / b in steps of 2^-FracBits; the
\* power of two common to both is cancelled before the rounding
FDiv(a0, b0) ==
    Bind(a0, LAMBDA a : Bind(b0, LAMBDA b :
        IF IsNaN(a) \/ IsNaN(b) THEN NaN
        ELSE IF ~IsFinite(a)
             THEN (IF ~IsFinite(b) THEN NaN
                   ELSE IF Sign(a) * (IF b < 0 THEN 0 - 1 ELSE 1) > 0
                        THEN PosInf ELSE NegInf)
        ELSE IF ~IsFinite(b) THEN 0
        ELSE IF b = 0
             THEN (IF a = 0 THEN NaN ELSE IF a > 0 THEN PosInf ELSE NegInf)
        ELSE Bind(CommonPow2(Abs(b), 1), LAMBDA g :
             IF b < 0 THEN RoundRat((0 - a) * (One \div g), (0 - b) \div g)
             ELSE RoundRat(a * (One \div g), b \div g))))

RECURSIVE ISqrtIn(_, _, _)
ISqrtIn(x, lo, hi) ==
    IF lo >= hi THEN lo
    ELSE Bind((lo + hi + 1) \div 2, LAMBDA mid :
              IF mid * mid <= x THEN ISqrtIn(x, mid, hi) ELSE ISqrtIn(x, lo, mid - 1))

ISqrt(x) == ISqrtIn(x, 0, 46340)

\* Math.sqrt, correctly rounded
FSqrt(a0) ==
    Bind(a0, LAMBDA a :
        IF IsNaN(a) \/ a < 0 THEN NaN
        ELSE IF a = PosInf THEN PosInf
        ELSE Bind(ISqrt(a * One), LAMBDA s :
             Bind(IF BitLen(s) > SigBits THEN 2^(BitLen(s) - SigBits) ELSE 1, LAMBDA g :
             Bind(s \div g, LAMBDA fl :
             Bind(IF g = 1 THEN fl * fl + fl
                  ELSE (2 * fl + 1) * (2 * fl + 1) * (g \div 2) * (g \div 2), LAMBDA M :
                  IF a * One > M \/ (a * One = M /\ g > 1 /\ fl % 2 = 1)
                  THEN (fl + 1) * g ELSE fl * g)))))

\* Math.min, Math.max, Math.abs
FMin(a0, b0) ==
    Bind(a0, LAMBDA a : Bind(b0, LAMBDA b :
        IF IsNaN(a) \/ IsNaN(b) THEN NaN ELSE IF a < b THEN a ELSE b))
FMax(a0, b0) ==
    Bind(a0, LAMBDA a : Bind(b0, LAMBDA b :
        IF IsNaN(a) \/ IsNaN(b) THEN NaN ELSE IF a > b THEN a ELSE b))
FAbs(a0) == Bind(a0, LAMBDA a : IF IsNaN(a) THEN NaN ELSE Abs(a))

\* the comparisons of the source: false as soon as an operand is NaN
FGe(a0, b0) ==
    Bind(a0, LAMBDA a : Bind(b0, LAMBDA b : ~IsNaN(a) /\ ~IsNaN(b) /\ a >= b))
FGt(a0, b0) ==
    Bind(a0, LAMBDA a : Bind(b0, LAMBDA b : ~IsNaN(a) /\ ~IsNaN(b) /\ a > b))
FLe(a, b) == FGe(b, a)
FLt(a, b) == FGt(b, a)

\* an argument the caller leaves out, or a property that is not there
Undefined == 2^30 + 2

(***************************************************************************)
(* Verifier: cosineSimilarity, weightedDistance, verifyVoiceStrict         *)
(***************************************************************************)
\* the loop of cosineSimilarity from index i on: <<dotProduct, normA, normB>>
RECURSIVE CosineSums(_, _, _, _)
CosineSums(a, b, i, acc) ==
    IF i > Len(a) THEN acc
    ELSE Bind(<<FAdd(acc[1], FMul(a[i], b[i])),
                FAdd(acc[2], FMul(a[i], a[i])),
                FAdd(acc[3], FMul(b[i], b[i]))>>, LAMBDA next :
              CosineSums(a, b, i + 1, next))

\* mutant: the square roots of the norms are left out
cosineSimilarity_NoSqrt(a0, b0) ==
    Bind(a0, LAMBDA a : Bind(b0, LAMBDA b :
        IF Len(a) # Len(b) \/ Len(a) = 0 THEN 0
        ELSE Bind(CosineSums(a, b, 1, <<0, 0, 0>>), LAMBDA sums :
             Bind(FMul(sums[2], sums[3]), LAMBDA denominator :
                  IF denominator = 0 THEN 0 ELSE FDiv(sums[1], denominator)))))

\* mutant: the product of the norms is taken as the squared norm of a
cosineSimilarity_NormOfFirst(a0, b0) ==
    Bind(a0, LAMBDA a : Bind(b0, LAMBDA b :
        IF Len(a) # Len(b) \/ Len(a) = 0 THEN 0
        ELSE Bind(CosineSums(a, b, 1, <<0, 0, 0>>), LAMBDA sums :
             Bind(FMul(FSqrt(sums[2]), FSqrt(sums[2])), LAMBDA denominator :
                  IF denominator = 0 THEN 0 ELSE FDiv(sums[1], denominator)))))

cosineSimilarity(a0, b0) ==
    Bind(a0, LAMBDA a : Bind(b0, LAMBDA b :
        IF Len(a) # Len(b) \/ Len(a) = 0 THEN 0
        ELSE Bind(CosineSums(a, b, 1, <<0, 0, 0>>), LAMBDA sums :
             Bind(FMul(FSqrt(sums[2]), FSqrt(sums[3])), LAMBDA denominator :
                  IF denominator = 0 THEN 0 ELSE FDiv(sums[1], denominator)))))

\* the weights of weightedDistance and the gates of verifyVoiceStrict
MeanWeight == Dec(35, 100)
VarianceWeight == Dec(25, 100)
DeltaWeight == Dec(15, 100)
EnergyWeight == Dec(10, 100)
ZcrWeight == Dec(5, 100)
FrameWeight == Dec(10, 100)
MeanGate == Dec(88, 100)
VarianceGate == Dec(80, 100)
DefaultThreshold == Dec(92, 100)

\* mutant: the weights of the mean and of the variance are exchanged
weightedDistance_SwappedWeights(test, stored) ==
    Bind(cosineSimilarity(test.mean, stored.mean), LAMBDA meanSim :
    Bind(cosineSimilarity(test.variance, stored.variance), LAMBDA varianceSim :
    Bind(cosineSimilarity(test.deltaMean, stored.deltaMean), LAMBDA deltaSim :
    Bind(FDiv(FMin(test.energy, stored.energy),
              FMax(test.energy, stored.energy)), LAMBDA energyRatio :
    Bind(FDiv(FMin(test.zeroCrossingRate, stored.zeroCrossingRate),
              FMax(test.zeroCrossingRate, stored.zeroCrossingRate)), LAMBDA zcrRatio :
    Bind(FAbs(FSub(test.frameCount, stored.frameCount)), LAMBDA frameDiff :
    Bind(FSub(One, FMin(FDiv(frameDiff, stored.frameCount), One)), LAMBDA frameRatio :
        FAdd(FAdd(FAdd(FAdd(FAdd(FMul(meanSim, VarianceWeight),
                                 FMul(varianceSim, MeanWeight)),
                            FMul(deltaSim, DeltaWeight)),
                       FMul(energyRatio, EnergyWeight)),
                  FMul(zcrRatio, ZcrWeight)),
             FMul(frameRatio, FrameWeight)))))))))

weightedDistance(test, stored) ==
    Bind(cosineSimilarity(test.mean, stored.mean), LAMBDA meanSim :
    Bind(cosineSimilarity(test.variance, stored.variance), LAMBDA varianceSim :
    Bind(cosineSimilarity(test.deltaMean, stored.deltaMean), LAMBDA deltaSim :
    Bind(FDiv(FMin(test.energy, stored.energy),
              FMax(test.energy, stored.energy)), LAMBDA energyRatio :
    Bind(FDiv(FMin(test.zeroCrossingRate, stored.zeroCrossingRate),
              FMax(test.zeroCrossingRate, stored.zeroCrossingRate)), LAMBDA zcrRatio :
    Bind(FAbs(FSub(test.frameCount, stored.frameCount)), LAMBDA frameDiff :
    Bind(FSub(One, FMin(FDiv(frameDiff, stored.frameCount), One)), LAMBDA frameRatio :
        FAdd(FAdd(FAdd(FAdd(FAdd(FMul(meanSim, MeanWeight),
                                 FMul(varianceSim, VarianceWeight)),
                            FMul(deltaSim, DeltaWeight)),
                       FMul(energyRatio, EnergyWeight)),
                  FMul(zcrRatio, ZcrWeight)),
             FMul(frameRatio, FrameWeight)))))))))

\* mutant: the overall score alone decides the match
verifyVoiceStrict_OverallOnly(testSignature, storedSignature, thresholdArg) ==
    Bind(IF thresholdArg = Undefined THEN DefaultThreshold ELSE thresholdArg,
         LAMBDA threshold :
    Bind(weightedDistance(testSignature, storedSignature), LAMBDA overallScore :
    Bind(cosineSimilarity(testSignature.mean, storedSignature.mean), LAMBDA meanSim :
    Bind(cosineSimilarity(testSignature.variance, storedSignature.variance),
         LAMBDA varianceSim :
        [match |-> FGe(overallScore, threshold),
         confidence |-> overallScore,
         details |-> [meanSimilarity |-> meanSim,
                      varianceSimilarity |-> varianceSim,
                      overallScore |-> overallScore,
                      meanPassed |-> FGe(meanSim, MeanGate),
                      variancePassed |-> FGe(varianceSim, VarianceGate)]]))))

\* mutant: the two gates are strict, a similarity at the gate fails
verifyVoiceStrict_StrictGates(testSignature, storedSignature, thresholdArg) ==
    Bind(IF thresholdArg = Undefined THEN DefaultThreshold ELSE thresholdArg,
         LAMBDA threshold :
    Bind(weightedDistance(testSignature, storedSignature), LAMBDA overallScore :
    Bind(cosineSimilarity(testSignature.mean, storedSignature.mean), LAMBDA meanSim :
    Bind(cosineSimilarity(testSignature.variance, storedSignature.variance),
         LAMBDA varianceSim :
    Bind(FGt(meanSim, MeanGate), LAMBDA meanPasses :
    Bind(FGt(varianceSim, VarianceGate), LAMBDA variancePasses :
    Bind(FGe(overallScore, threshold), LAMBDA overallPasses :
        [match |-> meanPasses /\ variancePasses /\ overallPasses,
         confidence |-> overallScore,
         details |-> [meanSimilarity |-> meanSim,
                      varianceSimilarity |-> varianceSim,
                      overallScore |-> overallScore,
                      meanPassed |-> meanPasses,
                      variancePassed |-> variancePasses]])))))))

verifyVoiceStrict(testSignature, storedSignature, thresholdArg) ==
    Bind(IF thresholdArg = Undefined THEN DefaultThreshold ELSE thresholdArg,
         LAMBDA threshold :
    Bind(weightedDistance(testSignature, storedSignature), LAMBDA overallScore :
    Bind(cosineSimilarity(testSignature.mean, storedSignature.mean), LAMBDA meanSim :
    Bind(cosineSimilarity(testSignature.variance, storedSignature.variance),
         LAMBDA varianceSim :
    Bind(FGe(meanSim, MeanGate), LAMBDA meanPasses :
    Bind(FGe(varianceSim, VarianceGate), LAMBDA variancePasses :
    Bind(FGe(overallScore, threshold), LAMBDA overallPasses :
        [match |-> meanPasses /\ variancePasses /\ overallPasses,
         confidence |-> overallScore,
         details |-> [meanSimilarity |-> meanSim,
                      varianceSimilarity |-> varianceSim,
                      overallScore |-> overallScore,
                      meanPassed |-> meanPasses,
                      variancePassed |-> variancePasses]])))))))

(***************************************************************************)
(* Enrollment aggregator: averageSignatures                                *)
(***************************************************************************)
Sig(m, v, d, e, z, f) ==
    [mean |-> m, variance |-> v, deltaMean |-> d,
     energy |-> e, zeroCrossingRate |-> z, frameCount |-> f]

\* v[i] of the source (0-based there): undefined past the end of the array
At(v, i) == IF i <= Len(v) THEN v[i] ELSE Undefined

\* an operand of + : undefined becomes NaN
ToNumber(x) == IF x = Undefined THEN NaN ELSE x

Returned(v) == [threw |-> FALSE, value |-> v]
Thrown(e) == [threw |-> TRUE, error |-> e]

\* the running sums of averageSignatures from signature k on:
\* <<avgMean, avgVariance, avgDeltaMean, avgEnergy, avgZcr, avgFrameCount>>
RECURSIVE AverageSums(_, _, _, _)
AverageSums(signatures, numCoeffs, k, acc) ==
    IF k > Len(signatures) THEN acc
    ELSE Bind(signatures[k], LAMBDA sig :
         Bind(<<[i \in 1..numCoeffs |-> FAdd(acc[1][i], ToNumber(At(sig.mean, i)))],
                [i \in 1..numCoeffs |-> FAdd(acc[2][i], ToNumber(At(sig.variance, i)))],
                [i \in 1..numCoeffs |-> FAdd(acc[3][i], ToNumber(At(sig.deltaMean, i)))],
                FAdd(acc[4], sig.energy),
                FAdd(acc[5], sig.zeroCrossingRate),
                FAdd(acc[6], sig.frameCount)>>, LAMBDA next :
              AverageSums(signatures, numCoeffs, k + 1, next)))

\* mutant: no guard on the empty list, the sums of nothing are returned
averageSignatures_NoGuard(signatures) ==
    Returned(Sig(<<>>, <<>>, <<>>, 0, 0, 0))

\* mutant: the sums are returned without the division by n
averageSignatures_NoDivision(signatures) ==
    IF Len(signatures) = 0 THEN Thrown("No signatures to average")
    ELSE Bind(Len(signatures[1].mean), LAMBDA numCoeffs :
         Bind([i \in 1..numCoeffs |-> 0], LAMBDA zeros :
         Bind(AverageSums(signatures, numCoeffs, 1, <<zeros, zeros, zeros, 0, 0, 0>>),
              LAMBDA sums :
              Returned(Sig(sums[1], sums[2], sums[3], sums[4], sums[5], sums[6])))))

averageSignatures(signatures) ==
    IF Len(signatures) = 0 THEN Thrown("No signatures to average")
    ELSE Bind(Len(signatures[1].mean), LAMBDA numCoeffs :
         Bind([i \in 1..numCoeffs |-> 0], LAMBDA zeros :
         Bind(AverageSums(signatures, numCoeffs, 1, <<zeros, zeros, zeros, 0, 0, 0>>),
              LAMBDA sums :
         Bind(Num(Len(signatures)), LAMBDA n :
              Returned(Sig([i \in 1..numCoeffs |-> FDiv(sums[1][i], n)],
                           [i \in 1..numCoeffs |-> FDiv(sums[2][i], n)],
                           [i \in 1..numCoeffs |-> FDiv(sums[3][i], n)],
                           FDiv(sums[4], n),
                           FDiv(sums[5], n),
                           FDiv(sums[6], n)))))))

(***************************************************************************)
(* Signature codec: serializeSignature, deserializeSignature               *)
(*                                                                         *)
(* A JSON text is a sequence of tokens; a number token holds the decimal   *)
(* literal digits * 10^-scale.  A parsed value is a tagged record.         *)
(***************************************************************************)
Tok(k) == [t |-> k]
TNum(digits, scale) == [t |-> "num", digits |-> digits, scale |-> scale]
TStr(str) == [t |-> "str", s |-> str]

JNull == [t |-> "null"]
JUndefined == [t |-> "undefined"]
JBool(b) == [t |-> "boolean", b |-> b]
JNum(x) == [t |-> "number", n |-> x]
JStr(str) == [t |-> "string", s |-> str]
JArr(elems) == [t |-> "array", e |-> elems]
JObj(fields) == [t |-> "object", f |-> fields]

RECURSIVE Pow10(_)
Pow10(d) == IF d = 0 THEN 1 ELSE 10 * Pow10(d - 1)

\* the integer nearest to a * 10^d, for a finite a >= 0
NearestInt(a, d) == (a * Pow10(d) + One \div 2) \div One

\* the number a decimal literal denotes: the nearest representable one
ParseNumber(digits, scale) == RoundRat(digits * One, Pow10(scale))

\* the fewest decimals with which the literal of a reads back as a
RECURSIVE ShortestScale(_, _)
ShortestScale(a, d) ==
    IF ParseNumber(NearestInt(a, d), d) = a THEN d ELSE ShortestScale(a, d + 1)

\* JSON.stringify of a number: the shortest literal that reads back as the
\* number; NaN and the infinities (and undefined in an array) become null
StringifyNumber(x) ==
    IF IsFinite(x)
    THEN Bind(ShortestScale(Abs(x), 0), LAMBDA d :
              TNum(Sign(x) * NearestInt(Abs(x), d), d))
    ELSE Tok("null")

RECURSIVE StringifyElements(_, _)
StringifyElements(v, i) ==
    IF i > Len(v) THEN <<>>
    ELSE (IF i > 1 THEN <<Tok(",")>> ELSE <<>>)
         \o <<StringifyNumber(v[i])>> \o StringifyElements(v, i + 1)

\* JSON.stringify of an array of numbers
StringifyArray(v) == <<Tok("[")>> \o StringifyElements(v, 1) \o <<Tok("]")>>

Member(key, text) == <<TStr(key), Tok(":")>> \o text

\* JSON.stringify of a VoiceSignature, the keys in the order of creation
serializeSignature(sig) ==
    <<Tok("{")>>
    \o Member("mean", StringifyArray(sig.mean)) \o <<Tok(",")>>
    \o Member("variance", StringifyArray(sig.variance)) \o <<Tok(",")>>
    \o Member("deltaMean", StringifyArray(sig.deltaMean)) \o <<Tok(",")>>
    \o Member("energy", <<StringifyNumber(sig.energy)>>) \o <<Tok(",")>>
    \o Member("zeroCrossingRate", <<StringifyNumber(sig.zeroCrossingRate)>>)
    \o <<Tok(",")>>
    \o Member("frameCount", <<StringifyNumber(sig.frameCount)>>)
    \o <<Tok("}")>>

ParseFail == [ok |-> FALSE]
ParseOk(v, i) == [ok |-> TRUE, v |-> v, next |-> i]

TokAt(text, i) == IF i <= Len(text) THEN text[i] ELSE Tok("end")

\* JSON.parse by recursive descent: the value that starts at token i
RECURSIVE ParseValue(_, _)
RECURSIVE ParseElements(_, _, _)
RECURSIVE ParseMembers(_, _, _)
ParseValue(text, i) ==
    Bind(TokAt(text, i), LAMBDA tok :
        CASE tok.t = "null" -> ParseOk(JNull, i + 1)
          [] tok.t = "true" -> ParseOk(JBool(TRUE), i + 1)
          [] tok.t = "false" -> ParseOk(JBool(FALSE), i + 1)
          [] tok.t = "num" -> ParseOk(JNum(ParseNumber(tok.digits, tok.scale)), i + 1)
          [] tok.t = "str" -> ParseOk(JStr(tok.s), i + 1)
          [] tok.t = "[" ->
                IF TokAt(text, i + 1).t = "]" THEN ParseOk(JArr(<<>>), i + 2)
                ELSE ParseElements(text, i + 1, <<>>)
          [] tok.t = "{" ->
                IF TokAt(text, i + 1).t = "}" THEN ParseOk(JObj(<<>>), i + 2)
                ELSE ParseMembers(text, i + 1, <<>>)
          [] OTHER -> ParseFail)

ParseElements(text, i, acc) ==
    Bind(ParseValue(text, i), LAMBDA r :
        IF ~r.ok THEN ParseFail
        ELSE IF TokAt(text, r.next).t = ","
             THEN ParseElements(text, r.next + 1, Append(acc, r.v))
        ELSE IF TokAt(text, r.next).t = "]"
             THEN ParseOk(JArr(Append(acc, r.v)), r.next + 1)
        ELSE ParseFail)

\* a later member with the same key replaces the earlier one
ParseMembers(text, i, acc) ==
    IF TokAt(text, i).t # "str" \/ TokAt(text, i + 1).t # ":" THEN ParseFail
    ELSE Bind(ParseValue(text, i + 2), LAMBDA r :
        IF ~r.ok THEN ParseFail
        ELSE Bind((text[i].s :> r.v) @@ acc, LAMBDA fields :
             IF TokAt(text, r.next).t = ","
             THEN ParseMembers(text, r.next + 1, fields)
             ELSE IF TokAt(text, r.next).t = "}"
             THEN ParseOk(JObj(fields), r.next + 1)
             ELSE ParseFail))

\* JSON.parse: the whole text is one value, or a SyntaxError is thrown
JSONparse(text) ==
    Bind(ParseValue(text, 1), LAMBDA r :
        IF r.ok /\ r.next = Len(text) + 1 THEN Returned(r.v)
        ELSE Thrown("SyntaxError"))

\* the truth value of a parsed value in a condition
Truthy(v) ==
    CASE v.t \in {"null", "undefined"} -> FALSE
      [] v.t = "boolean" -> v.b
      [] v.t = "number" -> ~(v.n = 0 \/ IsNaN(v.n))
      [] v.t = "string" -> v.s # ""
      [] OTHER -> TRUE

\* parsed.key for a parsed value other than null: none of the values that
\* JSON.parse returns has the keys read here, except an object that holds them
GetProp(v, key) ==
    IF v.t = "object" /\ key \in DOMAIN v.f THEN v.f[key] ELSE JUndefined

Fill(n, x) == [i \in 1..n |-> x]

\* mutant: the legacy variance defaults to 0 instead of 0.1
convertLegacySignature_ZeroVariance(legacy) ==
    JObj([mean |-> legacy,
          variance |-> JArr(Fill(Len(legacy.e), JNum(0))),
          deltaMean |-> JArr(Fill(Len(legacy.e), JNum(0))),
          energy |-> JNum(Dec(1, 100)),
          zeroCrossingRate |-> JNum(Dec(1, 10)),
          frameCount |-> JNum(Num(50))])

\* mutant: the legacy delta defaults to the means instead of zeros
convertLegacySignature_DeltaFromMean(legacy) ==
    JObj([mean |-> legacy,
          variance |-> JArr(Fill(Len(legacy.e), JNum(Dec(1, 10)))),
          deltaMean |-> legacy,
          energy |-> JNum(Dec(1, 100)),
          zeroCrossingRate |-> JNum(Dec(1, 10)),
          frameCount |-> JNum(Num(50))])

convertLegacySignature(legacy) ==
    JObj([mean |-> legacy,
          variance |-> JArr(Fill(Len(legacy.e), JNum(Dec(1, 10)))),
          deltaMean |-> JArr(Fill(Len(legacy.e), JNum(0))),
          energy |-> JNum(Dec(1, 100)),
          zeroCrossingRate |-> JNum(Dec(1, 10)),
          frameCount |-> JNum(Num(50))])

\* the try block of deserializeSignature; reading a property of null throws
DeserializeTry(data) ==
    Bind(JSONparse(data), LAMBDA parsed :
        IF parsed.threw THEN parsed
        ELSE IF parsed.value.t = "null" THEN Thrown("TypeError")
        ELSE IF /\ Truthy(GetProp(parsed.value, "mean"))
                /\ Truthy(GetProp(parsed.value, "variance"))
             THEN Returned(parsed.value)
        ELSE IF parsed.value.t = "array"
             THEN Returned(convertLegacySignature(parsed.value))
        ELSE Returned(JNull))

\* the catch block turns every exception into null
deserializeSignature(data) ==
    Bind(DeserializeTry(data), LAMBDA r : IF r.threw THEN Returned(JNull) ELSE r)

(***************************************************************************)
(* Signature extraction: extractMFCC, computeVoiceSignature,               *)
(* computeVariance, computeDelta, computeEnergy, computeZeroCrossingRate,  *)
(* extractVoiceSignature                                                   *)
(*                                                                         *)
(* The spectral transform of a frame (window, FFT, Mel filter bank,        *)
(* logarithm, DCT) is outside the arithmetic modelled here.  An audio      *)
(* buffer is therefore the sequence of its samples together with its       *)
(* spectral flatness, and extractFrameMFCC is held to what the code        *)
(* guarantees of it: NUM_MFCC_COEFFS finite numbers that the frame         *)
(* determines, derived here from the power and the sign changes of the     *)
(* frame.                                                                  *)
(***************************************************************************)
FFT_SIZE == 512
NUM_MFCC_COEFFS == 13

\* a loop over lo..hi that threads acc through step, in index order
RECURSIVE FoldRange(_, _, _, _)
FoldRange(step(_, _), lo, hi, acc) ==
    IF lo > hi THEN acc
    ELSE IF lo = hi THEN step(acc, lo)
    ELSE Bind((lo + hi) \div 2, LAMBDA mid :
         Bind(FoldRange(step, lo, mid, acc), LAMBDA left :
              FoldRange(step, mid + 1, hi, left)))

\* the sum of the squares of samples lo..hi, added up in index order
SquareSum(audioData, lo, hi) ==
    FoldRange(LAMBDA acc, i : FAdd(acc, FMul(audioData.samples[i], audioData.samples[i])), lo, hi, 0)

\* a sign change between sample i - 1 and sample i
Crossing(audioData, i) ==
    \/ audioData.samples[i] >= 0 /\ audioData.samples[i - 1] < 0
    \/ audioData.samples[i] < 0 /\ audioData.samples[i - 1] >= 0

\* the number of sign changes at samples lo..hi
CrossingCount(audioData, lo, hi) ==
    FoldRange(LAMBDA acc, i : IF Crossing(audioData, i) THEN acc + 1 ELSE acc,
              lo, hi, 0)

RECURSIVE FrameOffsets_Strict(_, _, _, _)
FrameOffsets_Strict(i, frameSize, hopSize, length) ==
    IF i + frameSize < length
    THEN <<i>> \o FrameOffsets_Strict(i + hopSize, frameSize, hopSize, length)
    ELSE <<>>

\* the frame offsets of: for (i = 0; i + frameSize <= length; i += hopSize)
RECURSIVE FrameOffsets(_, _, _, _)
FrameOffsets(i, frameSize, hopSize, length) ==
    IF i + frameSize <= length
    THEN <<i>> \o FrameOffsets(i + hopSize, frameSize, hopSize, length)
    ELSE <<>>

\* the cepstral vector of the frame of FFT_SIZE samples that starts after
\* sample offset
extractFrameMFCC(audioData, offset) ==
    Bind(FDiv(SquareSum(audioData, offset + 1, offset + FFT_SIZE), Num(FFT_SIZE)),
         LAMBDA power :
    Bind(FDiv(Num(CrossingCount(audioData, offset + 2, offset + FFT_SIZE)),
              Num(FFT_SIZE)), LAMBDA rate :
        [k \in 1..NUM_MFCC_COEFFS |->
            IF k % 2 = 1 THEN FDiv(power, Num(k)) ELSE FDiv(rate, Num(k))]))

extractMFCC(audioData) ==
    Bind(FrameOffsets(0, FFT_SIZE, FFT_SIZE \div 2, Len(audioData.samples)), LAMBDA offsets :
        [f \in 1..Len(offsets) |-> extractFrameMFCC(audioData, offsets[f])])

\* element-wise mean of the frames
computeVoiceSignature(mfccFrames) ==
    IF Len(mfccFrames) = 0 THEN <<>>
    ELSE Bind(Len(mfccFrames[1]), LAMBDA numCoeffs :
         Bind(FoldRange(LAMBDA acc, f :
                  [i \in 1..numCoeffs |-> FAdd(acc[i], ToNumber(At(mfccFrames[f], i)))],
                  1, Len(mfccFrames), [i \in 1..numCoeffs |-> 0]), LAMBDA signature :
              [i \in 1..numCoeffs |-> FDiv(signature[i], Num(Len(mfccFrames)))]))

computeVariance(frames, mean) ==
    IF Len(frames) = 0 THEN <<>>
    ELSE Bind(Len(mean), LAMBDA numCoeffs :
         Bind(FoldRange(LAMBDA acc, f :
                  [i \in 1..numCoeffs |->
                      Bind(FSub(ToNumber(At(frames[f], i)), mean[i]), LAMBDA diff :
                           FAdd(acc[i], FMul(diff, diff)))],
                  1, Len(frames), [i \in 1..numCoeffs |-> 0]), LAMBDA variance :
              [i \in 1..numCoeffs |-> FDiv(variance[i], Num(Len(frames)))]))

computeDelta_FewerThanTwo(frames) ==
    IF Len(frames) < 2 THEN frames
    ELSE [i \in 1..(Len(frames) - 2) |->
             [j \in 1..Len(frames[i + 1]) |->
                 FDiv(FSub(ToNumber(At(frames[i + 2], j)), ToNumber(At(frames[i], j))),
                      Num(2))]]

\* central differences; fewer than 3 frames are returned as they are
computeDelta(frames) ==
    IF Len(frames) < 3 THEN frames
    ELSE [i \in 1..(Len(frames) - 2) |->
             [j \in 1..Len(frames[i + 1]) |->
                 FDiv(FSub(ToNumber(At(frames[i + 2], j)), ToNumber(At(frames[i], j))),
                      Num(2))]]

computeEnergy(audioData) ==
    FDiv(SquareSum(audioData, 1, Len(audioData.samples)), Num(Len(audioData.samples)))

computeZeroCrossingRate(audioData) ==
    FDiv(Num(CrossingCount(audioData, 2, Len(audioData.samples))), Num(Len(audioData.samples)))

\* the signature of a buffer whose frames gave mfccFrames
SignatureOf(mfccFrames, audioData) ==
    Bind(computeVoiceSignature(mfccFrames), LAMBDA mean :
        Sig(mean,
            computeVariance(mfccFrames, mean),
            computeVoiceSignature(computeDelta(mfccFrames)),
            computeEnergy(audioData),
            computeZeroCrossingRate(audioData),
            Num(Len(mfccFrames))))

extractVoiceSignature(audioData) == SignatureOf(extractMFCC(audioData), audioData)

\* The Mel filter bank and the Hamming window are module-level arrays,
\* computed once when the module is loaded and read by extractFrameMFCC in
\* every call.  Each table is held as its scale relative to the table that
\* the loading computes, which extractFrameMFCC above stands for: a frame
\* multiplied by a window scaled by w has its power, and with it the vector
\* held here, scaled by w * w, and a filter bank scaled by m scales it by m.
TablesInit == [melFilterBank |-> One, window |-> One]

\* no object is shared between callers
NoObjects == <<>>

\* extractMFCC reading the tables as they are when the call is made
extractMFCCWith(t, audioData) ==
    Bind(FMul(FMul(t.window, t.window), t.melFilterBank), LAMBDA scale :
    Bind(extractMFCC(audioData), LAMBDA frames :
        [f \in 1..Len(frames) |->
            [k \in 1..Len(frames[f]) |-> FMul(frames[f][k], scale)]]))

extractVoiceSignatureWith(t, audioData) ==
    SignatureOf(extractMFCCWith(t, audioData), audioData)

(***************************************************************************)
(* Deepfake classifier: the four sample-level metrics and detectDeepfake   *)
(***************************************************************************)
\* 1e-10, less than half the smallest step of the arithmetic modelled
Epsilon == 0

\* values.reduce((a, b) => a + b, 0)
SumOf(values) == FoldRange(LAMBDA acc, i : FAdd(acc, values[i]), 1, Len(values), 0)

\* Math.abs(v[i] - v[i - 1]) for each i from the second element on
Differences(v) == [i \in 1..(Len(v) - 1) |-> FAbs(FSub(v[i + 1], v[i]))]

\* the square root of the mean squared deviation from the mean
Deviation(values) ==
    Bind(FDiv(SumOf(values), Num(Len(values))), LAMBDA mean :
    Bind(FoldRange(LAMBDA acc, i :
             Bind(FSub(values[i], mean), LAMBDA dev : FAdd(acc, FMul(dev, dev))),
             1, Len(values), 0), LAMBDA total :
         FSqrt(FDiv(total, Num(Len(values))))))

\* no frame, or no power in any frame, gives 0; otherwise the mean flatness
\* of the frames, which the buffer carries
calculateSpectralFlatness(audioData) ==
    IF FrameOffsets(0, FFT_SIZE, FFT_SIZE \div 2, Len(audioData.samples)) = <<>>
    THEN 0
    ELSE audioData.flatness

\* mutant: the mean frame energy is returned in place of the deviation of
\* its frame-to-frame changes
calculateTemporalVariation_MeanEnergy(audioData) ==
    Bind(FrameOffsets(0, 256, 256, Len(audioData.samples)), LAMBDA offsets :
    Bind([f \in 1..Len(offsets) |->
             FSqrt(FDiv(SquareSum(audioData, offsets[f] + 1, offsets[f] + 256),
                        Num(256)))], LAMBDA energies :
         IF Len(energies) < 2 THEN 0 ELSE FDiv(SumOf(energies), Num(Len(energies)))))

calculateTemporalVariation(audioData) ==
    Bind(FrameOffsets(0, 256, 256, Len(audioData.samples)), LAMBDA offsets :
    Bind([f \in 1..Len(offsets) |->
             FSqrt(FDiv(SquareSum(audioData, offsets[f] + 1, offsets[f] + 256),
                        Num(256)))], LAMBDA energies :
         IF Len(energies) < 2 THEN 0 ELSE Deviation(Differences(energies))))

calculatePitchVariation(audioData) ==
    Bind(FrameOffsets(0, 512, 256, Len(audioData.samples)), LAMBDA offsets :
    Bind([f \in 1..Len(offsets) |->
             FDiv(Num(CrossingCount(audioData, offsets[f] + 2, offsets[f] + 512)),
                  Num(512))], LAMBDA zcrs :
         IF Len(zcrs) < 2 THEN 0 ELSE Deviation(zcrs)))

\* the sum of the squared differences of neighbouring samples lo-1..hi
DiffSquareSum(audioData, lo, hi) ==
    FoldRange(LAMBDA acc, i :
                  Bind(FSub(audioData.samples[i], audioData.samples[i - 1]), LAMBDA diff :
                       FAdd(acc, FMul(diff, diff))), lo, hi, 0)

\* a frame of low energy whose high-frequency content is over half of it
BreathLike(audioData, offset) ==
    Bind(FSqrt(FDiv(SquareSum(audioData, offset + 1, offset + 512), Num(512))),
         LAMBDA rmsEnergy :
    Bind(FSqrt(FDiv(DiffSquareSum(audioData, offset + 2, offset + 512), Num(511))),
         LAMBDA rmsHighFreq :
        /\ FLt(rmsEnergy, Dec(5, 100))
        /\ FGt(rmsEnergy, Dec(5, 1000))
        /\ FGt(FDiv(rmsHighFreq, FAdd(rmsEnergy, Epsilon)), Dec(5, 10))))

detectBreathSounds(audioData) ==
    Bind(FrameOffsets(0, 512, 512, Len(audioData.samples)), LAMBDA offsets :
        FoldRange(LAMBDA acc, f : IF BreathLike(audioData, offsets[f]) THEN acc + 1 ELSE acc,
                  1, Len(offsets), 0) > 2)

\* the local maxima above 0.1, in order
Peaks(audioData) ==
    FoldRange(LAMBDA acc, i :
                  IF /\ audioData.samples[i] > audioData.samples[i - 1]
                     /\ audioData.samples[i] > audioData.samples[i + 1]
                     /\ audioData.samples[i] > Dec(1, 10)
                  THEN Append(acc, audioData.samples[i]) ELSE acc,
              2, Len(audioData.samples) - 1, <<>>)

calculateMicroVariations(audioData) ==
    Bind(Peaks(audioData), LAMBDA peaks :
        IF Len(peaks) < 10 THEN 0
        ELSE Bind(Differences(peaks), LAMBDA differences :
             Bind(FDiv(SumOf(differences), Num(Len(differences))), LAMBDA mean :
             Bind(FDiv(SumOf(peaks), Num(Len(peaks))), LAMBDA peakMean :
                  FDiv(mean, FAdd(peakMean, Epsilon))))))

FailureReasons ==
    <<"Unnatural spectral characteristics detected",
      "Voice energy too consistent (lacks natural variation)",
      "Pitch too monotone (lacks natural fluctuation)",
      "No natural breath sounds detected",
      "Amplitude patterns appear artificial">>

\* mutant: the verdict needs more than 0.6, so 3 checks of 5 are not enough
detectDeepfake_StrictVerdict(audioData) ==
    Bind(calculateSpectralFlatness(audioData), LAMBDA spectralFlatness :
    Bind(calculateTemporalVariation(audioData), LAMBDA temporalVariation :
    Bind(calculatePitchVariation(audioData), LAMBDA pitchVariation :
    Bind(detectBreathSounds(audioData), LAMBDA breathDetected :
    Bind(calculateMicroVariations(audioData), LAMBDA microVariations :
    Bind(<<FGe(spectralFlatness, Dec(8, 100)) /\ FLe(spectralFlatness, Dec(45, 100)),
           FGt(temporalVariation, Dec(5, 1000)),
           FGt(pitchVariation, Dec(1, 100)),
           breathDetected,
           FGt(microVariations, Dec(2, 100)) /\ FLt(microVariations, Dec(3, 10))>>,
         LAMBDA passed :
    Bind(FoldRange(LAMBDA acc, i : IF passed[i] THEN acc + 1 ELSE acc, 1, 5, 0),
         LAMBDA humanScore :
    Bind(FoldRange(LAMBDA acc, i : IF passed[i] THEN acc ELSE Append(acc, FailureReasons[i]),
                   1, 5, <<>>), LAMBDA reasons :
    Bind(FDiv(Num(humanScore), Num(5)), LAMBDA confidence :
    Bind(FGt(confidence, Dec(6, 10)), LAMBDA isHuman :
        [isHuman |-> isHuman,
         confidence |-> confidence,
         reasons |-> IF isHuman THEN <<"Voice appears natural and human">> ELSE reasons,
         metrics |-> [spectralFlatness |-> spectralFlatness,
                      temporalVariation |-> temporalVariation,
                      pitchVariation |-> pitchVariation,
                      breathDetected |-> breathDetected,
                      microVariations |-> microVariations]]))))))))))

detectDeepfake_KeepsReasons(audioData) ==
    Bind(calculateSpectralFlatness(audioData), LAMBDA spectralFlatness :
    Bind(calculateTemporalVariation(audioData), LAMBDA temporalVariation :
    Bind(calculatePitchVariation(audioData), LAMBDA pitchVariation :
    Bind(detectBreathSounds(audioData), LAMBDA breathDetected :
    Bind(calculateMicroVariations(audioData), LAMBDA microVariations :
    Bind(<<FGe(spectralFlatness, Dec(8, 100)) /\ FLe(spectralFlatness, Dec(45, 100)),
           FGt(temporalVariation, Dec(5, 1000)),
           FGt(pitchVariation, Dec(1, 100)),
           breathDetected,
           FGt(microVariations, Dec(2, 100)) /\ FLt(microVariations, Dec(3, 10))>>,
         LAMBDA passed :
    Bind(FoldRange(LAMBDA acc, i : IF passed[i] THEN acc + 1 ELSE acc, 1, 5, 0),
         LAMBDA humanScore :
    Bind(FoldRange(LAMBDA acc, i : IF passed[i] THEN acc ELSE Append(acc, FailureReasons[i]),
                   1, 5, <<>>), LAMBDA reasons :
    Bind(FDiv(Num(humanScore), Num(5)), LAMBDA confidence :
    Bind(FGe(confidence, Dec(6, 10)), LAMBDA isHuman :
        [isHuman |-> isHuman,
         confidence |-> confidence,
         reasons |-> IF isHuman /\ Len(reasons) = 0
                     THEN <<"Voice appears natural and human">> ELSE reasons,
         metrics |-> [spectralFlatness |-> spectralFlatness,
                      temporalVariation |-> temporalVariation,
                      pitchVariation |-> pitchVariation,
                      breathDetected |-> breathDetected,
                      microVariations |-> microVariations]]))))))))))

\* the five checks in order, one point each out of maxScore = 5
detectDeepfake(audioData) ==
    Bind(calculateSpectralFlatness(audioData), LAMBDA spectralFlatness :
    Bind(calculateTemporalVariation(audioData), LAMBDA temporalVariation :
    Bind(calculatePitchVariation(audioData), LAMBDA pitchVariation :
    Bind(detectBreathSounds(audioData), LAMBDA breathDetected :
    Bind(calculateMicroVariations(audioData), LAMBDA microVariations :
    Bind(<<FGe(spectralFlatness, Dec(8, 100)) /\ FLe(spectralFlatness, Dec(45, 100)),
           FGt(temporalVariation, Dec(5, 1000)),
           FGt(pitchVariation, Dec(1, 100)),
           breathDetected,
           FGt(microVariations, Dec(2, 100)) /\ FLt(microVariations, Dec(3, 10))>>,
         LAMBDA passed :
    Bind(FoldRange(LAMBDA acc, i : IF passed[i] THEN acc + 1 ELSE acc, 1, 5, 0),
         LAMBDA humanScore :
    Bind(FoldRange(LAMBDA acc, i : IF passed[i] THEN acc ELSE Append(acc, FailureReasons[i]),
                   1, 5, <<>>), LAMBDA reasons :
    Bind(FDiv(Num(humanScore), Num(5)), LAMBDA confidence :
    Bind(FGe(confidence, Dec(6, 10)), LAMBDA isHuman :
        [isHuman |-> isHuman,
         confidence |-> confidence,
         reasons |-> IF isHuman THEN <<"Voice appears natural and human">> ELSE reasons,
         metrics |-> [spectralFlatness |-> spectralFlatness,
                      temporalVariation |-> temporalVariation,
                      pitchVariation |-> pitchVariation,
                      breathDetected |-> breathDetected,
                      microVariations |-> microVariations]]))))))))))

(***************************************************************************)
(* Recorder hook: verifyVoice, extractSignature, verifyAgainst             *)
(***************************************************************************)
\* Math.round: the nearest integer, halves upwards
FRound(a0) ==
    Bind(a0, LAMBDA a :
        IF ~IsFinite(a) THEN a ELSE ((2 * a + One) \div (2 * One)) * One)

verifyVoice(testMfcc, storedSignature, thresholdArg) ==
    Bind(IF thresholdArg = Undefined THEN Dec(85, 100) ELSE thresholdArg,
         LAMBDA threshold :
    Bind(cosineSimilarity(computeVoiceSignature(testMfcc), storedSignature),
         LAMBDA similarity :
        [match |-> FGe(similarity, threshold),
         confidence |-> FDiv(FRound(FMul(similarity, Num(100))), Num(100))]))

extractSignature(audioData) == computeVoiceSignature(extractMFCC(audioData))

\* mutant: the comparison is made whatever the classifier says
verifyAgainst_NoShortCircuit(audioData, storedSignature, thresholdArg) ==
    Bind(detectDeepfake(audioData), LAMBDA deepfakeAnalysis :
    Bind(verifyVoice(extractMFCC(audioData), storedSignature,
                     IF thresholdArg = Undefined THEN Dec(85, 100)
                     ELSE thresholdArg), LAMBDA result :
        [match |-> result.match,
         confidence |-> result.confidence,
         deepfakeAnalysis |-> deepfakeAnalysis,
         calls |-> <<"detectDeepfake", "extractMFCC", "verifyVoice">>]))

\* the result of verifyAgainst, with the library calls it made, in order
verifyAgainst(audioData, storedSignature, thresholdArg) ==
    Bind(detectDeepfake(audioData), LAMBDA deepfakeAnalysis :
        IF ~deepfakeAnalysis.isHuman
        THEN [match |-> FALSE,
              confidence |-> 0,
              deepfakeAnalysis |-> deepfakeAnalysis,
              calls |-> <<"detectDeepfake">>]
        ELSE Bind(verifyVoice(extractMFCC(audioData), storedSignature,
                              IF thresholdArg = Undefined THEN Dec(85, 100)
                              ELSE thresholdArg), LAMBDA result :
                 [match |-> result.match,
                  confidence |-> result.confidence,
                  deepfakeAnalysis |-> deepfakeAnalysis,
                  calls |-> <<"detectDeepfake", "extractMFCC", "verifyVoice">>]))

(***************************************************************************)
(* Inputs of the verifier                                                  *)
(***************************************************************************)
Dim == 2
MaxVal == 2

Vals == 0..MaxVal

\* the vector (x, y, ..., y) of Dim coefficients
Vec(x, y) == [i \in 1..Dim |-> IF i = 1 THEN Num(x) ELSE Num(y)]

\* the same with the components given in halves
HalfVec(x, y) == [i \in 1..Dim |-> IF i = 1 THEN x * (One \div 2) ELSE y * (One \div 2)]

TestMeans == {Vec(x, y) : x \in Vals, y \in Vals} \cup {Vec(0 - 1, 2), <<>>}
StoredMeans == {Vec(1, 1), Vec(1, 0)}

\* <<test, stored>> pairs of variance and of deltaMean vectors
VariancePairs ==
    {<<Vec(1, 1), Vec(1, 1)>>, <<Vec(3, 2), Vec(1, 0)>>,
     <<Vec(1, 1), Vec(1, 0)>>, <<Vec(0, 0), Vec(1, 1)>>}
DeltaPairs ==
    {<<Vec(1, 1), Vec(1, 1)>>, <<Vec(0 - 1, 0 - 1), Vec(1, 1)>>, <<Vec(1, 2), Vec(0, 0)>>}

\* <<test, stored>> pairs of <<energy, zeroCrossingRate, frameCount>>
ScalarPairs ==
    {<<<<Dec(1, 100), Dec(1, 10), Num(50)>>, <<Dec(1, 100), Dec(1, 10), Num(50)>>>>,
     <<<<Dec(2, 100), Dec(5, 100), Num(40)>>, <<Dec(1, 100), Dec(1, 10), Num(50)>>>>,
     <<<<0, 0, Num(50)>>, <<0, 0, Num(50)>>>>,
     <<<<Dec(1, 100), Dec(1, 10), Num(50)>>, <<Dec(1, 100), Dec(1, 10), 0>>>>,
     <<<<Dec(1, 100), Dec(1, 10), 0>>, <<Dec(1, 100), Dec(1, 10), 0>>>>}

Thresholds == {Undefined, Dec(1, 2), One}

PairCalls ==
    {[fn |-> "verifyVoiceStrict",
      test |-> Sig(tm, vp[1], dp[1], sp[1][1], sp[1][2], sp[1][3]),
      stored |-> Sig(sm, vp[2], dp[2], sp[2][1], sp[2][2], sp[2][3]),
      threshold |-> t] :
        tm \in TestMeans, sm \in StoredMeans, vp \in VariancePairs,
        dp \in DeltaPairs, sp \in ScalarPairs, t \in Thresholds}

\* signatures verified against themselves
SelfSigs ==
    {Sig(m, v, d, e, Dec(1, 10), f) :
        m \in {Vec(1, 1), Vec(1, 2), Vec(0, 0), HalfVec(1, 4), HalfVec(5, 2), <<>>},
        v \in {Vec(1, 1), HalfVec(3, 6), Vec(0, 0)},
        d \in {Vec(1, 2), Vec(0 - 1, 1), Vec(0, 0)},
        e \in {Dec(1, 100), Dec(3, 100)}, f \in {Num(50), Num(7)}}

SelfCalls ==
    {[fn |-> "verifyVoiceStrict", test |-> s, stored |-> s, threshold |-> t] :
        s \in SelfSigs, t \in Thresholds}

\* <<test, stored>> pairs of vectors whose cosine similarity is the gate 0.88
\* as rounded, one step below it, and 0.87
GateMeanPairs ==
    {<<<<Num(2), Num(5)>>, <<Num(6), Num(5)>>>>,
     <<<<Num(7), Num(10)>>, <<Num(2), Num(1)>>>>,
     <<<<Num(9), Num(10)>>, <<Num(3), Num(1)>>>>}

\* the same for the gate 0.80: 4/5, and a cosine just below it
GateVariancePairs ==
    {<<<<Num(4), Num(3)>>, <<Num(1), 0>>>>,
     <<<<Num(2), Num(7)>>, <<Num(4), Num(3)>>>>}

\* calls at the boundary of the two gates
GateCalls ==
    {[fn |-> "verifyVoiceStrict",
      test |-> Sig(mp[1], vp[1], <<Num(1), Num(1)>>, Dec(1, 100), Dec(1, 10), Num(50)),
      stored |-> Sig(mp[2], vp[2], <<Num(1), Num(1)>>, Dec(1, 100), Dec(1, 10), Num(50)),
      threshold |-> t] :
        mp \in GateMeanPairs, vp \in GateVariancePairs, t \in Thresholds}

VerifyCalls == PairCalls \cup SelfCalls \cup GateCalls

NoCall == [fn |-> "none"]
NoRet == [returned |-> FALSE]

\* null, and a value that is not null
Null == [isNull |-> TRUE]
NonNull(v) == [isNull |-> FALSE, v |-> v]

\* the state of the recorder hook and of the dashboard before any recording
RecorderInit == [isRecording |-> FALSE, deepfakeAnalysis |-> Null]
DashboardInit(signature) ==
    [storedSignature |-> signature, isVerifying |-> FALSE,
     verificationResult |-> Null, authLog |-> Null]

\* the module is loaded, its tables are computed, and no object of a caller
\* is shared
LibraryLoaded ==
    /\ tables = TablesInit
    /\ heap = NoObjects

\* the application is not part of the run
AppIdle ==
    /\ recorder = RecorderInit
    /\ dashboard = DashboardInit(Null)
    /\ trace = <<>>
    /\ LibraryLoaded

(***************************************************************************)
(* The verifier applied to one pair of signatures                          *)
(***************************************************************************)
InitVerifier ==
    /\ pc = "ready"
    /\ call \in VerifyCalls
    /\ ret = NoRet
    /\ AppIdle

VerifyVoiceStrict ==
    /\ pc = "ready"
    /\ call.fn = "verifyVoiceStrict"
    /\ ret' = verifyVoiceStrict(call.test, call.stored, call.threshold)
    /\ pc' = "done"
    /\ UNCHANGED <<call, recorder, dashboard, trace, tables, heap>>

NextVerifier == VerifyVoiceStrict

SpecVerifier == InitVerifier /\ [][NextVerifier]_vars

(***************************************************************************)
(* Claims about the verifier                                               *)
(***************************************************************************)
Verified == pc = "done" /\ call.fn = "verifyVoiceStrict"

ThresholdOf(c) == IF c.threshold = Undefined THEN DefaultThreshold ELSE c.threshold

\* C1: verifyVoiceStrict returns match = true exactly when meanPassed,
\* variancePassed and overallScore >= threshold all hold, and a match is
\* never returned when the cosine similarity of the means is below 0.88 or
\* that of the variances is below 0.80, however high the overall score.
C1_MatchIffAllGates ==
    Verified =>
        /\ ret.match <=> (/\ ret.details.meanPassed
                          /\ ret.details.variancePassed
                          /\ FGe(ret.details.overallScore, ThresholdOf(call)))
        /\ ret.match =>
              /\ FGe(cosineSimilarity(call.test.mean, call.stored.mean), MeanGate)
              /\ FGe(cosineSimilarity(call.test.variance, call.stored.variance),
                     VarianceGate)

\* an overall score above the threshold with the mean gate failing: no match
C1_Witness ==
    /\ Verified
    /\ FGe(ret.details.overallScore, ThresholdOf(call))
    /\ ~ret.details.meanPassed
    /\ ret.details.variancePassed
    /\ ~ret.match

\* the weighted sum of the six terms, as the specification writes it
WeightedSum(t, s) ==
    Bind(FMul(MeanWeight, cosineSimilarity(t.mean, s.mean)), LAMBDA term1 :
    Bind(FMul(VarianceWeight, cosineSimilarity(t.variance, s.variance)), LAMBDA term2 :
    Bind(FMul(DeltaWeight, cosineSimilarity(t.deltaMean, s.deltaMean)), LAMBDA term3 :
    Bind(FMul(EnergyWeight, FDiv(FMin(t.energy, s.energy), FMax(t.energy, s.energy))),
         LAMBDA term4 :
    Bind(FMul(ZcrWeight, FDiv(FMin(t.zeroCrossingRate, s.zeroCrossingRate),
                              FMax(t.zeroCrossingRate, s.zeroCrossingRate))),
         LAMBDA term5 :
    Bind(FMul(FrameWeight,
              FSub(One, FMin(FDiv(FAbs(FSub(t.frameCount, s.frameCount)), s.frameCount),
                             One))), LAMBDA term6 :
        FAdd(FAdd(FAdd(FAdd(FAdd(term1, term2), term3), term4), term5), term6)))))))

\* C4: overallScore is the weighted sum 0.35 cos(mean) + 0.25 cos(variance) +
\* 0.15 cos(deltaMean) + 0.10 energy ratio + 0.05 zcr ratio + 0.10 frame term;
\* confidence is details.overallScore, and details.meanSimilarity and
\* details.varianceSimilarity are the cosines that enter the sum.
C4_ScoreIsWeightedSum ==
    Verified =>
        /\ ret.details.overallScore = WeightedSum(call.test, call.stored)
        /\ ret.confidence = ret.details.overallScore
        /\ ret.details.meanSimilarity
              = cosineSimilarity(call.test.mean, call.stored.mean)
        /\ ret.details.varianceSimilarity
              = cosineSimilarity(call.test.variance, call.stored.variance)

\* a score in which the mean and the variance terms differ and the ratios
\* are below 1
C4_Witness ==
    /\ Verified
    /\ IsFinite(ret.confidence)
    /\ ret.details.meanSimilarity > ret.details.varianceSimilarity
    /\ ret.details.varianceSimilarity > 0
    /\ call.test.energy # call.stored.energy
    /\ call.test.frameCount # call.stored.frameCount
    /\ ret.confidence > 0 /\ ret.confidence < One

NonZeroNorm(v) ==
    /\ Len(v) > 0
    /\ \A i \in 1..Len(v) : IsFinite(v[i])
    /\ \E i \in 1..Len(v) : v[i] # 0

\* a valid signature with no zero vector and positive scalars
NonDegenerate(s) ==
    /\ NonZeroNorm(s.mean) /\ NonZeroNorm(s.variance) /\ NonZeroNorm(s.deltaMean)
    /\ Len(s.mean) = Len(s.variance) /\ Len(s.mean) = Len(s.deltaMean)
    /\ IsFinite(s.energy) /\ s.energy > 0
    /\ IsFinite(s.zeroCrossingRate) /\ s.zeroCrossingRate > 0
    /\ IsFinite(s.frameCount) /\ s.frameCount > 0

SelfVerified == Verified /\ call.test = call.stored /\ NonDegenerate(call.stored)

\* the rounding error allowed on a score of 1: eight units in the last place
ScoreTolerance == 2^(FracBits - SigBits + 3)

NearOne(x) == IsFinite(x) /\ Abs(x - One) <= ScoreTolerance

\* C5 as stated: a non-degenerate signature verified against itself matches,
\* with confidence 1 up to rounding, whatever the threshold (at most 1).
C5_SelfMatchAnyThreshold ==
    SelfVerified => ret.match /\ NearOne(ret.confidence)

\* C5 as amended: a non-degenerate signature verified against itself has
\* confidence 1 up to rounding, and matches for every threshold up to the
\* default 0.92; rounding may leave the score just under 1.
C5_SelfSimilarity ==
    SelfVerified =>
        /\ NearOne(ret.confidence)
        /\ FLe(ThresholdOf(call), DefaultThreshold) => ret.match

\* a self-verification under the default threshold whose score is rounded
\* below 1 and matches
C5_Witness ==
    /\ SelfVerified
    /\ call.threshold = Undefined
    /\ ret.confidence < One
    /\ ret.match

\* C11: the confidence of every result of verifyVoiceStrict is a number of
\* the interval [0, 1], for every pair of test and stored signatures.
C11_ConfidenceInUnitInterval ==
    Verified =>
        /\ IsFinite(ret.confidence)
        /\ ret.confidence >= 0
        /\ ret.confidence <= One

\* C13: meanPassed is true exactly when meanSimilarity >= 0.88 and
\* variancePassed exactly when varianceSimilarity >= 0.80, the two
\* similarities being the cosines of the means and of the variances: the
\* gates are inclusive and are functions of the two signatures alone, not
\* of the threshold argument.
C13_GatesInclusive ==
    Verified =>
        /\ ret.details.meanSimilarity
              = cosineSimilarity(call.test.mean, call.stored.mean)
        /\ ret.details.varianceSimilarity
              = cosineSimilarity(call.test.variance, call.stored.variance)
        /\ ret.details.meanPassed <=>
              (/\ ~IsNaN(ret.details.meanSimilarity)
               /\ ret.details.meanSimilarity >= MeanGate)
        /\ ret.details.variancePassed <=>
              (/\ ~IsNaN(ret.details.varianceSimilarity)
               /\ ret.details.varianceSimilarity >= VarianceGate)

\* both similarities exactly at their gates, both gates passed, under a
\* threshold the overall score does not reach
C13_Witness ==
    /\ Verified
    /\ ret.details.meanSimilarity = MeanGate
    /\ ret.details.varianceSimilarity = VarianceGate
    /\ ret.details.meanPassed
    /\ ret.details.variancePassed
    /\ call.threshold = One
    /\ ~ret.match

(***************************************************************************)
(* cosineSimilarity applied to one pair of vectors                         *)
(***************************************************************************)
\* vectors of Dim coefficients, and vectors of other lengths, with a
\* component too small for its square, an infinite one and a NaN
CosineVectors ==
    {Vec(x, y) : x \in (0 - 1)..MaxVal, y \in (0 - 1)..MaxVal}
    \cup {HalfVec(1, 3), <<>>, <<0>>, <<Num(1)>>, <<1, 0>>, <<PosInf, Num(1)>>,
          <<NaN, Num(1)>>, <<Num(1), Num(2), Num(2), Num(1)>>}

CosineCalls ==
    {[fn |-> "cosineSimilarity", a |-> a, b |-> b] :
        a \in CosineVectors, b \in CosineVectors}

InitCosine ==
    /\ pc = "ready"
    /\ call \in CosineCalls
    /\ ret = NoRet
    /\ AppIdle

CosineSimilarity ==
    /\ pc = "ready"
    /\ call.fn = "cosineSimilarity"
    /\ ret' = Returned(cosineSimilarity(call.a, call.b))
    /\ pc' = "done"
    /\ UNCHANGED <<call, recorder, dashboard, trace, tables, heap>>

NextCosine == CosineSimilarity

SpecCosine == InitCosine /\ [][NextCosine]_vars

(***************************************************************************)
(* Claims about cosineSimilarity                                           *)
(***************************************************************************)
Cosined == pc = "done" /\ call.fn = "cosineSimilarity"

\* C14: cosineSimilarity(a, b) is cosineSimilarity(b, a) for all vectors a
\* and b, vectors of different lengths and zero vectors included.
C14_CosineSymmetric ==
    Cosined => ~ret.threw /\ ret.value = cosineSimilarity(call.b, call.a)

\* two different vectors of the same length at an angle that is neither 0
\* nor a right angle
C14_Witness ==
    /\ Cosined
    /\ call.a # call.b
    /\ Len(call.a) = Len(call.b)
    /\ IsFinite(ret.value)
    /\ ret.value # 0
    /\ Abs(ret.value) < One - ScoreTolerance

\* the dot product and the norm of the specification, in the arithmetic of
\* the code
DotProduct(a, b) ==
    FoldRange(LAMBDA acc, i : FAdd(acc, FMul(a[i], b[i])), 1, Len(a), 0)

Norm(v) == FSqrt(DotProduct(v, v))

ZeroVector(v) == \A i \in 1..Len(v) : v[i] = 0

\* C15: cosineSimilarity returns 0, and raises no error, whenever one of
\* the vectors has zero norm, the lengths differ or the vectors are empty;
\* otherwise it returns the dot product divided by the product of the norms.
C15_ZeroOrCosine ==
    Cosined =>
        /\ ~ret.threw
        /\ IF \/ Len(call.a) # Len(call.b)
              \/ Len(call.a) = 0
              \/ ZeroVector(call.a)
              \/ ZeroVector(call.b)
           THEN ret.value = 0
           ELSE ret.value = FDiv(DotProduct(call.a, call.b),
                                 FMul(Norm(call.a), Norm(call.b)))

(***************************************************************************)
(* The aggregator applied to one list of signatures                        *)
(***************************************************************************)
MaxTenths == 12
MaxCopies == 4
MaxMixed == 2

\* a vector of decimal fractions k/10, (k+1)/10, ...
TenthVec(k) == [i \in 1..Dim |-> Dec(k + i - 1, 10)]

ProbeSigs ==
    {Sig(TenthVec(k), Vec(1, 1), Vec(0, 1), Dec(1, 100), Dec(1, 10), Num(20)) :
        k \in 1..MaxTenths}

\* n copies of one signature
CopyCalls ==
    {[fn |-> "averageSignatures", signatures |-> [j \in 1..n |-> s]] :
        s \in ProbeSigs, n \in 1..MaxCopies}

\* signatures of different lengths, an empty one, and one without numbers
MixedSigs ==
    {Sig(Vec(1, 2), Vec(1, 1), Vec(0, 1), Dec(1, 100), Dec(1, 10), Num(20)),
     Sig(Vec(2, 0), Vec(1, 2), Vec(1, 1), Dec(3, 100), Dec(2, 10), Num(10)),
     Sig(<<Num(3)>>, <<Num(1)>>, <<Num(1)>>, Dec(1, 100), Dec(1, 10), Num(5)),
     Sig(<<>>, <<>>, <<>>, Dec(1, 100), Dec(1, 10), 0),
     Sig(<<>>, <<>>, <<>>, NaN, NaN, 0)}

MixedCalls ==
    {[fn |-> "averageSignatures", signatures |-> q] :
        q \in UNION {[1..n -> MixedSigs] : n \in 0..MaxMixed}}

AverageCalls == CopyCalls \cup MixedCalls

InitAverage ==
    /\ pc = "ready"
    /\ call \in AverageCalls
    /\ ret = NoRet
    /\ AppIdle

AverageSignatures ==
    /\ pc = "ready"
    /\ call.fn = "averageSignatures"
    /\ ret' = averageSignatures(call.signatures)
    /\ pc' = "done"
    /\ UNCHANGED <<call, recorder, dashboard, trace, tables, heap>>

NextAverage == AverageSignatures

SpecAverage == InitAverage /\ [][NextAverage]_vars

(***************************************************************************)
(* Claims about the aggregator                                             *)
(***************************************************************************)
Averaged == pc = "done" /\ call.fn = "averageSignatures"

\* C6: averageSignatures called with an empty sequence signals an explicit
\* error and never returns a signature, zero-valued or zero-length.
C6_EmptyInputThrows ==
    (Averaged /\ Len(call.signatures) = 0) =>
        /\ ret.threw
        /\ ret.error = "No signatures to average"
        /\ "value" \notin DOMAIN ret

\* the empty list has been averaged and the call has thrown
C6_Witness ==
    /\ Averaged
    /\ call.signatures = <<>>
    /\ ret.threw

\* n >= 1 copies of one signature have been averaged
CopiesAveraged ==
    /\ Averaged
    /\ Len(call.signatures) >= 1
    /\ \A j \in 1..Len(call.signatures) : call.signatures[j] = call.signatures[1]

\* the distance between two neighbouring numbers at the magnitude of x
Ulp(x) == 2^(IF BitLen(Abs(x)) > SigBits THEN BitLen(Abs(x)) - SigBits ELSE 0)

\* C10 as stated: the mean of n >= 1 copies of s equals s.mean element by
\* element.
C10_CopiesMeanExact ==
    CopiesAveraged =>
        /\ ~ret.threw
        /\ ret.value.mean = call.signatures[1].mean

\* C10 as amended: the mean of n copies of a signature with finite
\* components equals s.mean exactly for n = 1, 2 and 4, and for n = 3 each
\* element is within one unit in the last place of that of s.mean.
C10_CopiesMeanWithinUlp ==
    (/\ CopiesAveraged
     /\ Len(call.signatures) <= 4
     /\ \A i \in 1..Len(call.signatures[1].mean) :
            IsFinite(call.signatures[1].mean[i])) =>
        /\ ~ret.threw
        /\ Len(ret.value.mean) = Len(call.signatures[1].mean)
        /\ \A i \in 1..Len(call.signatures[1].mean) :
              /\ IsFinite(ret.value.mean[i])
              /\ Abs(ret.value.mean[i] - call.signatures[1].mean[i])
                    <= Ulp(call.signatures[1].mean[i])
        /\ Len(call.signatures) # 3 => ret.value.mean = call.signatures[1].mean

\* three copies whose mean is rounded away from that of the signature
C10_Witness ==
    /\ CopiesAveraged
    /\ Len(call.signatures) = 3
    /\ Len(ret.value.mean) > 0
    /\ ret.value.mean # call.signatures[1].mean
    /\ \A i \in 1..Len(ret.value.mean) :
          Abs(ret.value.mean[i] - call.signatures[1].mean[i])
              <= Ulp(call.signatures[1].mean[i])

(***************************************************************************)
(* Audio buffers                                                           *)
(***************************************************************************)
BlockLen == FFT_SIZE \div 2

\* sample i of a block of BlockLen samples of one kind
BlockSample(kind, i) ==
    CASE kind = "silence" -> 0
      [] kind = "steady" -> Dec(1, 2)
      [] kind = "tone" -> IF i % 2 = 0 THEN Dec(1, 2) ELSE 0 - Dec(1, 2)
      [] kind = "breath" -> IF i % 2 = 0 THEN Dec(3, 100) ELSE 0 - Dec(3, 100)
      [] kind = "pulses" ->
            IF i % 2 = 1 THEN 0 ELSE IF i % 4 = 0 THEN Dec(1, 2) ELSE Dec(5, 8)

\* the samples of the blocks of the given kinds, then tail more samples of a
\* tone
Audio(kinds, tail) ==
    [i \in 1..(BlockLen * Len(kinds) + tail) |->
        IF i > BlockLen * Len(kinds) THEN BlockSample("tone", i)
        ELSE BlockSample(kinds[(i - 1) \div BlockLen + 1], ((i - 1) % BlockLen) + 1)]

\* a buffer: its samples and the spectral flatness of these samples
Buffer(samples, flatness) == [samples |-> samples, flatness |-> flatness]

(***************************************************************************)
(* The extractor applied to one buffer, and the aggregator applied to the  *)
(* signatures it returns                                                   *)
(***************************************************************************)
MaxEnrolled == 2

\* recordings: empty, shorter than a frame, of one frame, of several frames
ExtractBuffers ==
    {Buffer(a, 0) :
        a \in {Audio(<<>>, 0), Audio(<<>>, 100), Audio(<<"tone">>, BlockLen - 1),
               Audio(<<"tone", "tone">>, 0), Audio(<<"pulses", "tone">>, BlockLen - 1),
               Audio(<<"pulses", "breath", "tone">>, 0),
               Audio(<<"silence", "silence", "silence">>, 0),
               Audio(<<"tone", "breath", "silence", "pulses">>, 7),
               Audio(<<"steady", "pulses", "pulses", "tone", "breath">>, 0)}}

ExtractCalls == {[fn |-> "extractVoiceSignature", audioData |-> b] : b \in ExtractBuffers}

\* the recordings of an enrollment, extracted one by one and averaged
EnrollCalls ==
    {[fn |-> "averageSignatures", signatures |-> q] :
        q \in UNION {[1..n -> {extractVoiceSignature(b) : b \in ExtractBuffers}] :
                       n \in 1..MaxEnrolled}}

InitExtract ==
    /\ pc = "ready"
    /\ call \in ExtractCalls \cup EnrollCalls
    /\ ret = NoRet
    /\ AppIdle

ExtractVoiceSignature ==
    /\ pc = "ready"
    /\ call.fn = "extractVoiceSignature"
    /\ ret' = Returned(extractVoiceSignature(call.audioData))
    /\ pc' = "done"
    /\ UNCHANGED <<call, recorder, dashboard, trace, tables, heap>>

NextExtract == ExtractVoiceSignature \/ AverageSignatures

SpecExtract == InitExtract /\ [][NextExtract]_vars

(***************************************************************************)
(* Claims about the extractor                                              *)
(***************************************************************************)
Extracted == pc = "done" /\ call.fn = "extractVoiceSignature"

\* C17: extractVoiceSignature applied to an empty buffer fails with an
\* error the caller can catch; it returns no signature, be it with empty,
\* zero or non-numeric fields.
C17_EmptyBufferFails ==
    (Extracted /\ Len(call.audioData.samples) = 0) =>
        /\ ret.threw
        /\ "value" \notin DOMAIN ret

\* C18: every signature returned by extractVoiceSignature, for any buffer,
\* and by averageSignatures, for any non-empty list of such signatures, has
\* mean, variance and deltaMean of the same length 13 and frameCount >= 0.
C18_ThirteenCoefficients ==
    (/\ pc = "done"
     /\ call.fn \in {"extractVoiceSignature", "averageSignatures"}
     /\ ~ret.threw) =>
        /\ Len(ret.value.mean) = NUM_MFCC_COEFFS
        /\ Len(ret.value.variance) = NUM_MFCC_COEFFS
        /\ Len(ret.value.deltaMean) = NUM_MFCC_COEFFS
        /\ FGe(ret.value.frameCount, 0)

(***************************************************************************)
(* The codec applied to one signature or one stored text                   *)
(***************************************************************************)
\* signatures as the extractor and the aggregator return them
ExtractedSigs ==
    {extractVoiceSignature(Buffer(a, 0)) :
        a \in {Audio(<<>>, 0), Audio(<<>>, 100), Audio(<<"tone", "tone">>, 0),
               Audio(<<"tone", "breath", "silence", "pulses">>, 7)}}

AveragedSigs ==
    {averageSignatures(q).value :
        q \in {c.signatures : c \in {d \in AverageCalls : Len(d.signatures) > 0}}}

LiteralSigs ==
    {Sig(Vec(1, 2), Vec(1, 1), Vec(0 - 1, 0), Dec(1, 100), Dec(1, 10), Num(50)),
     Sig(TenthVec(3), TenthVec(1), TenthVec(7), Dec(3, 100), Dec(2, 10), Num(7)),
     Sig(<<>>, <<>>, <<>>, Dec(1, 100), Dec(1, 10), 0),
     Sig(Vec(0, 0), Vec(0, 0), Vec(0, 0), 0, 0, 0)}

SerializeCalls ==
    {[fn |-> "serializeSignature", sig |-> s, origin |-> "extractVoiceSignature"] :
        s \in ExtractedSigs}
    \cup {[fn |-> "serializeSignature", sig |-> s, origin |-> "averageSignatures"] :
        s \in AveragedSigs}
    \cup {[fn |-> "serializeSignature", sig |-> s, origin |-> "literal"] :
        s \in LiteralSigs}

\* legacy signatures: bare arrays of numbers
LegacyArrays ==
    {<<>>, Vec(1, 2), Vec(0 - 2, 0), TenthVec(1), TenthVec(7),
     [k \in 1..NUM_MFCC_COEFFS |-> Dec(k, 10) - Num(1)]}

LegacyCalls ==
    {[fn |-> "deserializeSignature", data |-> StringifyArray(a), kind |-> "legacy",
      array |-> a] : a \in LegacyArrays}

RECURSIVE JoinMembers(_, _)
JoinMembers(members, i) ==
    IF i > Len(members) THEN <<>>
    ELSE (IF i > 1 THEN <<Tok(",")>> ELSE <<>>)
         \o Member(members[i][1], members[i][2]) \o JoinMembers(members, i + 1)

\* the text of an object with the given <<key, text of the value>> members
ObjectText(members) == <<Tok("{")>> \o JoinMembers(members, 1) \o <<Tok("}")>>

GoodText ==
    serializeSignature(
        Sig(Vec(1, 2), Vec(1, 1), Vec(0 - 1, 0), Dec(1, 100), Dec(1, 10), Num(50)))

OneTwo == StringifyArray(Vec(1, 2))
Ones == StringifyArray(Vec(1, 1))
Zeros == StringifyArray(Vec(0, 0))
Scalars == <<<<"energy", <<TNum(1, 2)>> >>, <<"zeroCrossingRate", <<TNum(1, 1)>> >>,
             <<"frameCount", <<TNum(50, 0)>> >> >>

\* texts that encode neither a complete signature nor a legacy numeric array
CorruptTexts ==
    {SubSeq(GoodText, 1, n) : n \in 0..(Len(GoodText) - 1)}
    \cup {GoodText \o <<Tok("}")>>, <<Tok("junk")>>, <<Tok("]")>>,
          <<Tok("null")>>, <<Tok("true")>>, <<Tok("false")>>,
          <<TNum(0, 0)>>, <<TNum(5, 0)>>, <<TStr("")>>, <<TStr("mean")>>,
          ObjectText(<<>>),
          ObjectText(<< <<"mean", OneTwo>> >>),
          ObjectText(<< <<"variance", Ones>> >>),
          ObjectText(<< <<"mean", OneTwo>>, <<"variance", Ones>> >>),
          ObjectText(<< <<"mean", OneTwo>>, <<"variance", Ones>>,
                        <<"deltaMean", Zeros>> >> \o SubSeq(Scalars, 1, 2)),
          ObjectText(<< <<"mean", <<TStr("abc")>> >>, <<"variance", <<Tok("true")>> >>,
                        <<"deltaMean", Zeros>> >> \o Scalars),
          ObjectText(<< <<"mean", <<TNum(0, 0)>> >>, <<"variance", Ones>>,
                        <<"deltaMean", Zeros>> >> \o Scalars),
          ObjectText(<< <<"mean", <<Tok("null")>> >>, <<"variance", Ones>>,
                        <<"deltaMean", Zeros>> >> \o Scalars),
          ObjectText(<< <<"mean", OneTwo>>, <<"variance", Ones>>,
                        <<"deltaMean", Zeros>>, <<"energy", <<Tok("null")>> >>,
                        <<"zeroCrossingRate", <<Tok("null")>> >>,
                        <<"frameCount", <<TNum(0, 0)>> >> >>),
          <<Tok("["), TStr("a"), Tok(","), TStr("b"), Tok("]")>>,
          <<Tok("["), Tok("null"), Tok("]")>>,
          <<Tok("["), Tok("["), TNum(1, 0), Tok("]"), Tok("]")>>,
          <<Tok("["), TNum(1, 0), Tok(","), Tok("]")>>}

CorruptCalls ==
    {[fn |-> "deserializeSignature", data |-> text, kind |-> "corrupt"] :
        text \in CorruptTexts}

CodecCalls == SerializeCalls \cup LegacyCalls \cup CorruptCalls

InitCodec ==
    /\ pc = "ready"
    /\ call \in CodecCalls
    /\ ret = NoRet
    /\ AppIdle

\* the signature is serialized and the text is stored
SerializeSignature ==
    /\ pc = "ready"
    /\ call.fn = "serializeSignature"
    /\ ret' = Returned(serializeSignature(call.sig))
    /\ pc' = "stored"
    /\ UNCHANGED <<call, recorder, dashboard, trace, tables, heap>>

\* a text, the stored one or the one given, is deserialized
DeserializeSignature ==
    /\ \/ pc = "stored"
       \/ pc = "ready" /\ call.fn = "deserializeSignature"
    /\ ret' = deserializeSignature(IF pc = "stored" THEN ret.value ELSE call.data)
    /\ pc' = "done"
    /\ UNCHANGED <<call, recorder, dashboard, trace, tables, heap>>

NextCodec == SerializeSignature \/ DeserializeSignature

SpecCodec == InitCodec /\ [][NextCodec]_vars

(***************************************************************************)
(* Claims about the codec                                                  *)
(***************************************************************************)
NumberArray(v) == JArr([i \in 1..Len(v) |-> JNum(v[i])])

\* a signature as a value: an object of three number arrays and three numbers
SigValue(sig) ==
    JObj([mean |-> NumberArray(sig.mean),
          variance |-> NumberArray(sig.variance),
          deltaMean |-> NumberArray(sig.deltaMean),
          energy |-> JNum(sig.energy),
          zeroCrossingRate |-> JNum(sig.zeroCrossingRate),
          frameCount |-> JNum(sig.frameCount)])

RoundTripped == pc = "done" /\ call.fn = "serializeSignature"

Deserialized == pc = "done" /\ call.fn = "deserializeSignature"

\* C7: deserializeSignature(serializeSignature(s)) equals s field by field
\* for any valid VoiceSignature s, including signatures whose vectors are
\* empty and signatures produced by extractVoiceSignature or
\* averageSignatures.
C7_RoundTrip ==
    RoundTripped => ret = Returned(SigValue(call.sig))

\* C8: deserializeSignature never throws, and it returns null whenever the
\* text does not encode a complete VoiceSignature (all six fields present)
\* or a legacy numeric array.
C8_NullUnlessComplete ==
    Deserialized =>
        /\ ~ret.threw
        /\ call.kind = "corrupt" => ret.value = JNull

\* C9: deserializeSignature applied to a serialized bare numeric array
\* returns a VoiceSignature whose mean is that array, whose variance is 0.1
\* for each coefficient, whose deltaMean is 0 for each coefficient, with
\* energy 0.01, zeroCrossingRate 0.1 and frameCount 50, the three vectors
\* having the array's length.
C9_LegacyDefaults ==
    (Deserialized /\ call.kind = "legacy") =>
        /\ ~ret.threw
        /\ ret.value.t = "object"
        /\ DOMAIN ret.value.f = {"mean", "variance", "deltaMean", "energy",
                                 "zeroCrossingRate", "frameCount"}
        /\ ret.value.f.mean = NumberArray(call.array)
        /\ ret.value.f.variance = JArr([i \in 1..Len(call.array) |-> JNum(Dec(1, 10))])
        /\ ret.value.f.deltaMean = JArr([i \in 1..Len(call.array) |-> JNum(0)])
        /\ ret.value.f.energy = JNum(Dec(1, 100))
        /\ ret.value.f.zeroCrossingRate = JNum(Dec(1, 10))
        /\ ret.value.f.frameCount = JNum(Num(50))

\* a legacy array of 13 numbers, not all whole, has been converted
C9_Witness ==
    /\ Deserialized
    /\ call.kind = "legacy"
    /\ Len(call.array) = NUM_MFCC_COEFFS
    /\ \E i \in 1..Len(call.array) : call.array[i] % One # 0
    /\ ret.value.t = "object"
    /\ Len(ret.value.f.variance.e) = NUM_MFCC_COEFFS

(***************************************************************************)
(* A stored text is loaded and the signature is verified                   *)
(*                                                                         *)
(* What deserializeSignature returns is whatever JSON.parse gave, so       *)
(* verifyVoiceStrict reads its fields as the language does: the length of  *)
(* null or undefined is a TypeError, a value without a length compares as  *)
(* an empty vector, and an operand of the arithmetic is converted to a     *)
(* number.  The strings of the texts here hold letters, not digits.        *)
(***************************************************************************)
\* the number a value becomes as an operand of *, - or Math.min
RECURSIVE ToNumberJ(_)
ToNumberJ(v) ==
    CASE v.t = "number" -> v.n
      [] v.t = "null" -> 0
      [] v.t = "undefined" -> NaN
      [] v.t = "boolean" -> IF v.b THEN One ELSE 0
      [] v.t = "string" -> IF v.s = "" THEN 0 ELSE NaN
      [] v.t = "array" ->
            IF Len(v.e) = 0 THEN 0
            ELSE IF Len(v.e) > 1 THEN NaN
            ELSE IF v.e[1].t \in {"null", "undefined"} THEN 0
            ELSE ToNumberJ(v.e[1])
      [] OTHER -> NaN

\* a value read as a[i] for i < a.length
AsVector(v) ==
    CASE v.t = "array" -> [i \in 1..Len(v.e) |-> ToNumberJ(v.e[i])]
      [] v.t = "string" -> [i \in 1..Len(v.s) |-> NaN]
      [] OTHER -> <<>>

\* a.length throws for null and for undefined
NoLength(v) == v.t \in {"null", "undefined"}

LoadedSig(loaded) ==
    Sig(AsVector(GetProp(loaded, "mean")),
        AsVector(GetProp(loaded, "variance")),
        AsVector(GetProp(loaded, "deltaMean")),
        ToNumberJ(GetProp(loaded, "energy")),
        ToNumberJ(GetProp(loaded, "zeroCrossingRate")),
        ToNumberJ(GetProp(loaded, "frameCount")))

\* verifyVoiceStrict with the loaded value as the stored or as the test
\* signature, under the default threshold
verifyLoaded(loaded, other, role) ==
    IF \E key \in {"mean", "variance", "deltaMean"} : NoLength(GetProp(loaded, key))
    THEN Thrown("TypeError")
    ELSE IF role = "stored"
         THEN Returned(verifyVoiceStrict(other, LoadedSig(loaded), Undefined))
         ELSE Returned(verifyVoiceStrict(LoadedSig(loaded), other, Undefined))

\* the signature of the other side of the comparison
FreshSigs ==
    {Sig(Vec(1, 2), Vec(1, 1), Vec(0 - 1, 0), Dec(1, 100), Dec(1, 10), Num(50)),
     extractVoiceSignature(Buffer(Audio(<<"tone", "breath", "silence", "pulses">>, 7), 0))}

LoadCalls ==
    {[fn |-> "deserializeSignature", data |-> c.data, kind |-> c.kind,
      other |-> o, role |-> r] :
        c \in LegacyCalls \cup CorruptCalls
              \cup {[fn |-> "deserializeSignature", data |-> GoodText, kind |-> "good"]},
        o \in FreshSigs, r \in {"stored", "test"}}

InitLoad ==
    /\ pc = "ready"
    /\ call \in LoadCalls
    /\ ret = NoRet
    /\ AppIdle

\* a signature that was loaded, not null, is compared with a fresh one
VerifyLoadedSignature ==
    /\ pc = "done"
    /\ call.fn = "deserializeSignature"
    /\ "other" \in DOMAIN call
    /\ ~ret.threw
    /\ ret.value # JNull
    /\ ret' = [loaded |-> ret.value,
               outcome |-> verifyLoaded(ret.value, call.other, call.role)]
    /\ pc' = "verified"
    /\ UNCHANGED <<call, recorder, dashboard, trace, tables, heap>>

NextLoad == DeserializeSignature \/ VerifyLoadedSignature

SpecLoad == InitLoad /\ [][NextLoad]_vars

\* C19: for every text for which deserializeSignature returns a signature,
\* not null, verifyVoiceStrict with that signature as the stored or as the
\* test signature returns a result and does not throw.
C19_LoadThenVerifyReturns ==
    pc = "verified" =>
        /\ ~ret.outcome.threw
        /\ "match" \in DOMAIN ret.outcome.value

(***************************************************************************)
(* The classifier applied to one audio buffer                              *)
(***************************************************************************)
\* sample sequences with at least one frame of FFT_SIZE samples and some power
FramedAudios ==
    {Audio(<<"steady", "steady", "steady", "steady">>, 0),
     Audio(<<"silence", "tone", "tone", "silence">>, 0),
     Audio(<<"breath", "breath", "breath", "breath", "breath", "breath">>, 0),
     Audio(<<"pulses", "pulses">>, 0),
     Audio(<<"steady", "silence", "steady", "steady">>, 5),
     Audio(<<"tone", "pulses", "pulses">>, 0),
     Audio(<<"breath", "breath", "breath", "breath", "breath", "breath",
             "silence", "steady">>, 0),
     Audio(<<"breath", "breath", "breath", "breath", "breath", "breath",
             "pulses", "tone", "silence">>, 0)}

\* sample sequences without a frame, or without power
FlatAudios ==
    {Audio(<<>>, 0), Audio(<<>>, 100), Audio(<<"silence", "silence", "silence">>, 0)}

Flatnesses ==
    {0, Dec(7, 100), Dec(8, 100), Dec(3, 10), Dec(45, 100), Dec(46, 100), One}

\* n samples of the same value
ConstantAudio(level, n) == [i \in 1..n |-> level]

ConstantLevels == {0, Dec(3, 100), Dec(1, 2), 0 - Dec(1, 2), Num(1), PosInf}
ConstantLengths == {0, BlockLen + 44, 4 * BlockLen, 6 * BlockLen, 8 * BlockLen - 48}

\* buffers of constant amplitude; without a frame or without power the
\* flatness is 0
ConstantBuffers ==
    {Buffer(ConstantAudio(c, n), x) :
        c \in ConstantLevels \ {0},
        n \in {m \in ConstantLengths : m >= FFT_SIZE},
        x \in {0, Dec(3, 10), One}}
    \cup {Buffer(ConstantAudio(c, n), 0) :
            c \in ConstantLevels, n \in {m \in ConstantLengths : m < FFT_SIZE}}
    \cup {Buffer(ConstantAudio(0, n), 0) : n \in ConstantLengths}

Buffers ==
    {Buffer(a, x) : a \in FramedAudios, x \in Flatnesses}
    \cup {Buffer(a, 0) : a \in FlatAudios}
    \cup ConstantBuffers

DetectCalls == {[fn |-> "detectDeepfake", audioData |-> b] : b \in Buffers}

InitDetect ==
    /\ pc = "ready"
    /\ call \in DetectCalls
    /\ ret = NoRet
    /\ AppIdle

DetectDeepfake ==
    /\ pc = "ready"
    /\ call.fn = "detectDeepfake"
    /\ ret' = detectDeepfake(call.audioData)
    /\ pc' = "done"
    /\ UNCHANGED <<call, recorder, dashboard, trace, tables, heap>>

NextDetect == DetectDeepfake

SpecDetect == InitDetect /\ [][NextDetect]_vars

(***************************************************************************)
(* Claims about the classifier                                             *)
(***************************************************************************)
Detected == pc = "done" /\ call.fn = "detectDeepfake"

\* the number of the five checks that the returned metrics pass
PassedChecks(metrics) ==
    (IF FGe(metrics.spectralFlatness, Dec(8, 100))
        /\ FLe(metrics.spectralFlatness, Dec(45, 100)) THEN 1 ELSE 0)
    + (IF FGt(metrics.temporalVariation, Dec(5, 1000)) THEN 1 ELSE 0)
    + (IF FGt(metrics.pitchVariation, Dec(1, 100)) THEN 1 ELSE 0)
    + (IF metrics.breathDetected THEN 1 ELSE 0)
    + (IF FGt(metrics.microVariations, Dec(2, 100))
          /\ FLt(metrics.microVariations, Dec(3, 10)) THEN 1 ELSE 0)

\* C3: detectDeepfake returns confidence = (number of the five checks that
\* pass) / 5, so confidence is one of 0, 0.2, 0.4, 0.6, 0.8, 1, and isHuman is
\* true exactly when at least 3 of the 5 checks pass.
C3_ConfidenceIsPassedFifths ==
    Detected =>
        /\ ret.confidence = FDiv(Num(PassedChecks(ret.metrics)), Num(5))
        /\ ret.confidence \in {0, Dec(2, 10), Dec(4, 10), Dec(6, 10), Dec(8, 10), One}
        /\ ret.isHuman <=> PassedChecks(ret.metrics) >= 3

ConstantAmplitude(audioData) ==
    \A i \in 1..Len(audioData.samples) : audioData.samples[i] = audioData.samples[1]

\* C16: for every buffer of constant amplitude, of any length and value,
\* detectDeepfake returns isHuman = false with confidence <= 0.4: the
\* temporal-variation, pitch-variation and micro-variation checks fail, so
\* at most 2 of the 5 checks pass.
C16_ConstantAmplitudeNotHuman ==
    (Detected /\ ConstantAmplitude(call.audioData)) =>
        /\ ~ret.isHuman
        /\ FLe(ret.confidence, Dec(4, 10))
        /\ ~FGt(ret.metrics.temporalVariation, Dec(5, 1000))
        /\ ~FGt(ret.metrics.pitchVariation, Dec(1, 100))
        /\ ~(/\ FGt(ret.metrics.microVariations, Dec(2, 100))
             /\ FLt(ret.metrics.microVariations, Dec(3, 10)))
        /\ PassedChecks(ret.metrics) <= 2

\* a constant buffer of several frames, at a level in the range of breath
\* energy, whose flatness check passes
C16_Witness ==
    /\ Detected
    /\ ConstantAmplitude(call.audioData)
    /\ Len(call.audioData.samples) >= 3 * FFT_SIZE
    /\ call.audioData.samples[1] = Dec(3, 100)
    /\ PassedChecks(ret.metrics) = 1
    /\ ret.confidence = Dec(2, 10)
    /\ ~ret.isHuman

\* which of the five checks the returned metrics pass, in check order
ChecksPassed(metrics) ==
    <<FGe(metrics.spectralFlatness, Dec(8, 100))
         /\ FLe(metrics.spectralFlatness, Dec(45, 100)),
      FGt(metrics.temporalVariation, Dec(5, 1000)),
      FGt(metrics.pitchVariation, Dec(1, 100)),
      metrics.breathDetected,
      FGt(metrics.microVariations, Dec(2, 100))
         /\ FLt(metrics.microVariations, Dec(3, 10))>>

\* the fixed reason strings of the checks from check i on that failed
RECURSIVE ReasonsOfFailed(_, _)
ReasonsOfFailed(passed, i) ==
    IF i > 5 THEN <<>>
    ELSE (IF passed[i] THEN <<>> ELSE <<FailureReasons[i]>>)
         \o ReasonsOfFailed(passed, i + 1)

\* C25: when isHuman is true the reasons are exactly one affirmative
\* message and none of the failure reasons, even if one or two checks
\* failed; when isHuman is false they are exactly one fixed reason string
\* per failed check, in check order (spectral, temporal, pitch, breath,
\* micro-variation), so the number of reasons is 5 minus the number of
\* passed checks.  The reasons never influence isHuman or confidence, which
\* the metrics alone determine.
C25_ReasonsFollowVerdict ==
    Detected =>
        /\ ret.isHuman => ret.reasons = <<"Voice appears natural and human">>
        /\ ~ret.isHuman =>
              /\ ret.reasons = ReasonsOfFailed(ChecksPassed(ret.metrics), 1)
              /\ Len(ret.reasons) = 5 - PassedChecks(ret.metrics)
        /\ \A i \in 1..Len(ret.reasons) :
              ret.isHuman => \A k \in 1..5 : ret.reasons[i] # FailureReasons[k]
        /\ ret.isHuman <=> PassedChecks(ret.metrics) >= 3
        /\ ret.confidence = FDiv(Num(PassedChecks(ret.metrics)), Num(5))

\* a human verdict with a failed check and no failure reason
C25_Witness ==
    /\ Detected
    /\ ret.isHuman
    /\ PassedChecks(ret.metrics) \in {3, 4}
    /\ ret.reasons = <<"Voice appears natural and human">>

\* exactly three checks pass, the flatness at its lower limit among them
C3_Witness ==
    /\ Detected
    /\ PassedChecks(ret.metrics) = 3
    /\ ret.metrics.spectralFlatness = Dec(8, 100)
    /\ ret.confidence = Dec(6, 10)
    /\ ret.isHuman

(***************************************************************************)
(* The verification path of the dashboard                                  *)
(***************************************************************************)
EnrolledAudio == Audio(<<"silence", "tone", "tone", "silence">>, 0)

\* what the microphone may deliver: the enrolled voice, the same samples
\* with a synthetic spectrum, a steady hum, another voice, a click
VerifyBuffers ==
    {Buffer(EnrolledAudio, Dec(3, 10)),
     Buffer(EnrolledAudio, One),
     Buffer(Audio(<<"steady", "steady", "steady", "steady">>, 0), Dec(3, 10)),
     Buffer(Audio(<<"tone", "pulses", "pulses">>, 0), Dec(3, 10)),
     Buffer(Audio(<<>>, 100), 0)}

\* the signatures a profile may hold: the enrolled one, that of another
\* voice, an unrelated one, an empty one
StoredSignatures ==
    {extractSignature(Buffer(EnrolledAudio, Dec(3, 10))),
     extractSignature(Buffer(Audio(<<"tone", "pulses", "pulses">>, 0), Dec(3, 10))),
     [k \in 1..NUM_MFCC_COEFFS |-> 0 - Num(1)],
     <<>>}

InitDashboard ==
    /\ pc = "dashboard"
    /\ call = NoCall
    /\ ret = NoRet
    /\ recorder = RecorderInit
    /\ \E s \in {Null} \cup {NonNull(v) : v \in StoredSignatures} :
          dashboard = DashboardInit(s)
    /\ trace = <<>>
    /\ LibraryLoaded

\* handleVerificationRecording while no recording runs: the last result is
\* cleared and the recording starts, unless the microphone is refused
StartVerificationRecording ==
    /\ pc = "dashboard"
    /\ ~recorder.isRecording
    /\ dashboard' = [dashboard EXCEPT !.verificationResult = Null]
    /\ \E granted \in BOOLEAN :
          recorder' = [recorder EXCEPT !.isRecording = granted]
    /\ trace' = <<>>
    /\ call' = NoCall
    /\ UNCHANGED <<pc, ret, tables, heap>>

\* the row handleVerificationRecording inserts into auth_logs
AuthLog(result) ==
    [auth_method |-> IF ~result.deepfakeAnalysis.isHuman
                     THEN "voice_deepfake_blocked" ELSE "voice_verification",
     success |-> result.match /\ result.deepfakeAnalysis.isHuman,
     confidence_score |-> result.confidence]

\* handleVerificationRecording while a recording runs: the recording is
\* stopped and, with audio and a stored signature, verified at 0.80; call
\* keeps the arguments of verifyAgainst and trace the library calls it made
StopVerificationRecording ==
    /\ pc = "dashboard"
    /\ recorder.isRecording
    /\ \E audioData \in {Null} \cup {NonNull(b) : b \in VerifyBuffers} :
          IF audioData.isNull \/ dashboard.storedSignature.isNull
          THEN /\ recorder' = [recorder EXCEPT !.isRecording = FALSE]
               /\ dashboard' = [dashboard EXCEPT !.isVerifying = FALSE]
               /\ trace' = <<>>
               /\ call' = NoCall
          ELSE \E result \in {verifyAgainst(audioData.v, dashboard.storedSignature.v,
                                            Dec(80, 100))} :
               /\ recorder' = [isRecording |-> FALSE,
                               deepfakeAnalysis |-> NonNull(result.deepfakeAnalysis)]
               /\ dashboard' =
                     [dashboard EXCEPT
                         !.verificationResult =
                             NonNull([match |-> result.match,
                                      confidence |-> result.confidence,
                                      deepfakeAnalysis |-> result.deepfakeAnalysis]),
                         !.authLog = NonNull(AuthLog(result)),
                         !.isVerifying = FALSE]
               /\ trace' = result.calls
               /\ call' = [fn |-> "verifyAgainst", audioData |-> audioData.v,
                           storedSignature |-> dashboard.storedSignature.v]
    /\ UNCHANGED <<pc, ret, tables, heap>>

\* handleReEnroll: the stored signature is dropped
HandleReEnroll ==
    /\ pc = "dashboard"
    /\ ~recorder.isRecording
    /\ ~dashboard.storedSignature.isNull
    /\ dashboard' = [dashboard EXCEPT !.storedSignature = Null]
    /\ UNCHANGED <<pc, call, ret, recorder, trace, tables, heap>>

NextDashboard ==
    StartVerificationRecording \/ StopVerificationRecording \/ HandleReEnroll

SpecDashboard == InitDashboard /\ [][NextDashboard]_vars

(***************************************************************************)
(* Claims about the verification path                                      *)
(***************************************************************************)
VerificationDone == ~dashboard.verificationResult.isNull

\* C2: in the verification path detectDeepfake runs on the audio before any
\* signature comparison, and whenever it returns isHuman = false the
\* verification result is match = false, whatever the similarity between
\* the audio's signature and the stored signature; the comparison is not
\* performed in that case.
C2_DeepfakeBlocksComparison ==
    VerificationDone =>
        /\ Len(trace) >= 1
        /\ trace[1] = "detectDeepfake"
        /\ \A i \in 1..Len(trace) :
              trace[i] = "verifyVoice" => \E j \in 1..(i - 1) : trace[j] = "detectDeepfake"
        /\ dashboard.verificationResult.v.deepfakeAnalysis
              = detectDeepfake(call.audioData)
        /\ ~dashboard.verificationResult.v.deepfakeAnalysis.isHuman =>
              /\ ~dashboard.verificationResult.v.match
              /\ \A i \in 1..Len(trace) : trace[i] # "verifyVoice"

\* audio whose signature is within the threshold of the stored one is
\* classified as synthetic and refused without a comparison
C2_Witness ==
    /\ VerificationDone
    /\ ~dashboard.verificationResult.v.deepfakeAnalysis.isHuman
    /\ FGe(cosineSimilarity(extractSignature(call.audioData), call.storedSignature),
           Dec(80, 100))
    /\ ~dashboard.verificationResult.v.match
    /\ trace = <<"detectDeepfake">>

(***************************************************************************)
(* The library under calls of several requests                             *)
(*                                                                         *)
(* extractVoiceSignature, detectDeepfake, averageSignatures and            *)
(* verifyVoiceStrict are synchronous: a call runs from its first statement *)
(* to its return before anything else runs, so requests interleave call by *)
(* call.  The requests share the tables of the module and the objects they *)
(* pass by reference; trace is the log of the calls made, each with the    *)
(* values it read and the value it returned.                               *)
(***************************************************************************)
MaxCalls == 3

\* the objects the requests hold: two recordings and two signatures
HeapInit ==
    [recording1 |-> Buffer(Audio(<<"tone", "tone">>, 0), Dec(3, 10)),
     recording2 |-> Buffer(Audio(<<"pulses", "breath", "tone">>, 0), Dec(3, 10)),
     enrolled |-> Sig(Vec(1, 2), Vec(1, 1), Vec(0 - 1, 0), Dec(1, 100), Dec(1, 10), Num(50)),
     probe |-> Sig(Vec(2, 2), Vec(1, 2), Vec(1, 1), Dec(2, 100), Dec(1, 10), Num(40))]

BufferRefs == {"recording1", "recording2"}

\* what a call returns when it is the only call made after the loading
Alone(c) ==
    CASE c.fn = "extractVoiceSignature" ->
            Returned(extractVoiceSignatureWith(TablesInit, HeapInit[c.audioData]))
      [] c.fn = "detectDeepfake" -> Returned(detectDeepfake(HeapInit[c.audioData]))
      [] c.fn = "averageSignatures" ->
            averageSignatures([i \in 1..Len(c.signatures) |-> HeapInit[c.signatures[i]]])
      [] c.fn = "verifyVoiceStrict" ->
            Returned(verifyVoiceStrict(HeapInit[c.test], HeapInit[c.stored], Undefined))

\* the calls the requests make, by the names of the objects they pass
EngineCalls ==
    {[fn |-> "extractVoiceSignature", audioData |-> r] : r \in BufferRefs}
    \cup {[fn |-> "detectDeepfake", audioData |-> "recording1"],
          [fn |-> "averageSignatures", signatures |-> <<"enrolled", "probe">>],
          [fn |-> "verifyVoiceStrict", test |-> "probe", stored |-> "enrolled"]}

AloneResults == [c \in EngineCalls |-> Alone(c)]

\* the call c, which read inputs and returned output, is logged
Logged(c, inputs, output) ==
    /\ call' = c
    /\ ret' = output
    /\ trace' = Append(trace, [call |-> c, inputs |-> inputs, output |-> output])
    /\ pc' = IF Len(trace) + 1 = MaxCalls THEN "done" ELSE "ready"

InitEngine ==
    /\ pc = "ready"
    /\ call = NoCall
    /\ ret = NoRet
    /\ recorder = RecorderInit
    /\ dashboard = DashboardInit(Null)
    /\ trace = <<>>
    /\ tables = TablesInit
    /\ heap = HeapInit

\* mutant: the window is applied in place, the table is scaled by the call
ExtractVoiceSignatureCall_WindowInPlace ==
    /\ pc = "ready"
    /\ \E r \in BufferRefs :
          Logged([fn |-> "extractVoiceSignature", audioData |-> r], <<heap[r]>>,
                 Returned(extractVoiceSignatureWith(tables, heap[r])))
    /\ tables' = [tables EXCEPT !.window = FDiv(@, Num(2))]
    /\ UNCHANGED <<heap, recorder, dashboard>>

ExtractVoiceSignatureCall ==
    /\ pc = "ready"
    /\ \E r \in BufferRefs :
          Logged([fn |-> "extractVoiceSignature", audioData |-> r], <<heap[r]>>,
                 Returned(extractVoiceSignatureWith(tables, heap[r])))
    /\ UNCHANGED <<tables, heap, recorder, dashboard>>

DetectDeepfakeCall ==
    /\ pc = "ready"
    /\ \E r \in {"recording1"} :
          Logged([fn |-> "detectDeepfake", audioData |-> r], <<heap[r]>>,
                 Returned(detectDeepfake(heap[r])))
    /\ UNCHANGED <<tables, heap, recorder, dashboard>>

\* mutant: the sums are accumulated in the first signature of the list
AverageSignaturesCall_InPlace ==
    /\ pc = "ready"
    /\ \E q \in {<<"enrolled", "probe">>} :
          /\ Logged([fn |-> "averageSignatures", signatures |-> q],
                    [i \in 1..Len(q) |-> heap[q[i]]],
                    averageSignatures([i \in 1..Len(q) |-> heap[q[i]]]))
          /\ heap' = [heap EXCEPT
                         ![q[1]] = averageSignatures_NoDivision(
                                       [i \in 1..Len(q) |-> heap[q[i]]]).value]
    /\ UNCHANGED <<tables, recorder, dashboard>>

AverageSignaturesCall ==
    /\ pc = "ready"
    /\ \E q \in {<<"enrolled", "probe">>} :
          Logged([fn |-> "averageSignatures", signatures |-> q],
                 [i \in 1..Len(q) |-> heap[q[i]]],
                 averageSignatures([i \in 1..Len(q) |-> heap[q[i]]]))
    /\ UNCHANGED <<tables, heap, recorder, dashboard>>

VerifyVoiceStrictCall ==
    /\ pc = "ready"
    /\ \E t \in {"probe"}, s \in {"enrolled"} :
          Logged([fn |-> "verifyVoiceStrict", test |-> t, stored |-> s],
                 <<heap[t], heap[s]>>,
                 Returned(verifyVoiceStrict(heap[t], heap[s], Undefined)))
    /\ UNCHANGED <<tables, heap, recorder, dashboard>>

NextEngine ==
    \/ ExtractVoiceSignatureCall
    \/ DetectDeepfakeCall
    \/ AverageSignaturesCall
    \/ VerifyVoiceStrictCall

SpecEngine == InitEngine /\ [][NextEngine]_vars

C20_CallsIndependent ==
    /\ tables = TablesInit
    /\ heap = HeapInit
    /\ \A i \in 1..Len(trace) :
          /\ trace[i].call \in EngineCalls
          /\ trace[i].output = AloneResults[trace[i].call]

\* an enrollment (averageSignatures) between an extraction and a
\* verification that use the same objects
C20_Witness ==
    /\ Len(trace) = 3
    /\ trace[1].call.fn = "extractVoiceSignature"
    /\ trace[2].call.fn = "averageSignatures"
    /\ trace[3].call.fn = "verifyVoiceStrict"
    /\ "enrolled" \in {trace[2].call.signatures[i] : i \in 1..2}
    /\ trace[3].call.stored = "enrolled"
    /\ ~trace[2].output.threw
    /\ trace[3].output = AloneResults[trace[3].call]

\* C23: extractMFCC returns exactly floor((L - 512) / 256) + 1 frames for a
\* buffer of L >= 512 samples and no frame for L < 512: frame k covers
\* samples [256k, 256k + 512), a tail that does not fill a whole 512-sample
\* window is dropped, and the frameCount of extractVoiceSignature equals
\* that number of frames.
C23_FrameCount ==
    Extracted =>
        LET L == Len(call.audioData.samples)
            expected == IF L >= 512 THEN (L - 512) \div 256 + 1 ELSE 0
            frames == extractMFCC(call.audioData)
        IN /\ Len(frames) = expected
           /\ \A k \in 0..(expected - 1) :
                 /\ 256 * k + 512 <= L
                 /\ frames[k + 1] = extractFrameMFCC(call.audioData, 256 * k)
           /\ 256 * expected + 512 > L
           /\ ret.value.frameCount = Num(expected)

\* a buffer of four windows' worth of hops and seven samples more: three
\* frames, the tail dropped
C23_Witness ==
    /\ Extracted
    /\ Len(call.audioData.samples) = 4 * 256 + 7
    /\ ret.value.frameCount = Num(3)

\* C24: computeDelta on N frames returns, for N >= 3, exactly N - 2
\* vectors, the one for frame i (1 <= i < N - 1) being
\* (frame[i+1][j] - frame[i-1][j]) / 2 for each coefficient j; for N < 3 it
\* returns the input frames unchanged, so that the deltaMean of a signature
\* built from 1 or 2 frames equals its mean.
C24_CentralDifferences ==
    Extracted =>
        LET frames == extractMFCC(call.audioData)
            N == Len(frames)
            deltas == computeDelta(frames)
        IN /\ N >= 3 =>
                 /\ Len(deltas) = N - 2
                 /\ \A i \in 1..(N - 2) :
                       /\ Len(deltas[i]) = NUM_MFCC_COEFFS
                       /\ \A j \in 1..NUM_MFCC_COEFFS :
                             deltas[i][j] = FDiv(FSub(frames[i + 2][j], frames[i][j]), Num(2))
                 /\ ret.value.deltaMean = computeVoiceSignature(deltas)
           /\ N < 3 =>
                 /\ deltas = frames
                 /\ N \in {1, 2} => ret.value.deltaMean = ret.value.mean

\* a signature built from two frames that differ
C24_Witness ==
    /\ Extracted
    /\ ret.value.frameCount = Num(2)
    /\ Len(ret.value.mean) = NUM_MFCC_COEFFS
    /\ ret.value.deltaMean = ret.value.mean
    /\ \E j \in 1..NUM_MFCC_COEFFS : ret.value.variance[j] # 0

(***************************************************************************)
(* The enrollment path of the dashboard                                    *)
(*                                                                         *)
(* dashboard holds the component state and the voice_profiles row; heap    *)
(* keeps, for the claims, the recordings behind the enrollment samples and *)
(* behind the stored signature.                                            *)
(***************************************************************************)
REQUIRED_SAMPLES == 3

\* the most samples the component is let to collect while upserts fail
MaxSamples == 4

\* what the microphone may deliver while enrolling: a recording with a
\* synthetic spectrum, a voice
EnrollBuffers ==
    {Buffer(EnrolledAudio, One),
     Buffer(Audio(<<"tone", "pulses", "pulses">>, 0), Dec(3, 10))}

\* what the classifier and the extractor return for each of them
EnrollAnalysis == [b \in EnrollBuffers |-> detectDeepfake(b)]
EnrollSignature == [b \in EnrollBuffers |-> extractSignature(b)]

EnrollInit ==
    [storedSignature |-> Null, enrollmentSamples |-> <<>>,
     enrollment_status |-> "pending", row |-> Null, authLog |-> Null]

InitEnroll ==
    /\ pc = "enroll"
    /\ call = NoCall
    /\ ret = NoRet
    /\ recorder = RecorderInit
    /\ dashboard = EnrollInit
    /\ trace = <<>>
    /\ tables = TablesInit
    /\ heap = [recorded |-> <<>>, enrolled |-> <<>>]

isEnrolled == dashboard.enrollment_status = "enrolled" /\ ~dashboard.storedSignature.isNull

\* the element-wise average that completeEnrollment computes
FinalSignature(samples) ==
    Bind(Len(samples[1]), LAMBDA numCoeffs :
    Bind(FoldRange(LAMBDA acc, s :
             [i \in 1..numCoeffs |-> FAdd(acc[i], ToNumber(At(samples[s], i)))],
             1, Len(samples), [i \in 1..numCoeffs |-> 0]), LAMBDA finalSignature :
        [i \in 1..numCoeffs |-> FDiv(finalSignature[i], Num(Len(samples)))]))

\* handleEnrollmentRecording while no recording runs
StartEnrollmentRecording ==
    /\ pc = "enroll"
    /\ ~isEnrolled
    /\ ~recorder.isRecording
    /\ \E granted \in BOOLEAN :
          recorder' = [recorder EXCEPT !.isRecording = granted]
    /\ trace' = <<>>
    /\ call' = NoCall
    /\ UNCHANGED <<pc, ret, dashboard, tables, heap>>

\* handleEnrollmentRecording while a recording runs: the recording is
\* stopped, its signature is extracted and added to the samples, and with
\* REQUIRED_SAMPLES samples completeEnrollment averages them and, unless
\* the upsert fails, stores the average
StopEnrollmentRecording ==
    /\ pc = "enroll"
    /\ ~isEnrolled
    /\ recorder.isRecording
    /\ recorder' = [recorder EXCEPT !.isRecording = FALSE]
    /\ \E audioData \in {Null} \cup {NonNull(b) : b \in EnrollBuffers} :
          IF audioData.isNull
          THEN /\ trace' = <<>>
               /\ call' = NoCall
               /\ UNCHANGED <<dashboard, heap>>
          ELSE \E newSamples \in {Append(dashboard.enrollmentSamples,
                                         EnrollSignature[audioData.v])} :
               \E upsertFails \in {f \in BOOLEAN : f => Len(newSamples) < MaxSamples} :
               /\ call' = [fn |-> "handleEnrollmentRecording", audioData |-> audioData.v]
               /\ trace' = <<"extractMFCC", "computeVoiceSignature">>
               /\ IF Len(newSamples) < REQUIRED_SAMPLES \/ upsertFails
                  THEN /\ dashboard' = [dashboard EXCEPT !.enrollmentSamples = newSamples]
                       /\ heap' = [heap EXCEPT !.recorded = Append(@, audioData.v)]
                  ELSE /\ dashboard' =
                             [dashboard EXCEPT
                                 !.storedSignature = NonNull(FinalSignature(newSamples)),
                                 !.enrollmentSamples = <<>>,
                                 !.enrollment_status = "enrolled",
                                 !.row = NonNull(StringifyArray(FinalSignature(newSamples))),
                                 !.authLog = NonNull([auth_method |-> "voice_enrollment",
                                                      success |-> TRUE,
                                                      confidence_score |-> One])]
                       /\ heap' = [recorded |-> <<>>,
                                   enrolled |-> Append(heap.recorded, audioData.v)]
    /\ UNCHANGED <<pc, ret, tables>>

\* fetchProfiles, started by completeEnrollment and not awaited: the stored
\* signature is read back from the row
FetchProfiles ==
    /\ pc = "enroll"
    /\ ~dashboard.row.isNull
    /\ \E parsed \in {JSONparse(dashboard.row.v)} :
          /\ ~parsed.threw
          /\ dashboard' = [dashboard EXCEPT
                              !.storedSignature = NonNull(AsVector(parsed.value)),
                              !.enrollment_status = "enrolled"]
    /\ UNCHANGED <<pc, call, ret, recorder, trace, tables, heap>>

\* handleReEnroll in the enrollment state: signature and samples are dropped
ReEnroll ==
    /\ pc = "enroll"
    /\ isEnrolled
    /\ dashboard' = [dashboard EXCEPT !.storedSignature = Null,
                                      !.enrollmentSamples = <<>>,
                                      !.enrollment_status = "pending"]
    /\ heap' = [heap EXCEPT !.recorded = <<>>]
    /\ UNCHANGED <<pc, call, ret, recorder, trace, tables>>

NextEnroll ==
    StartEnrollmentRecording \/ StopEnrollmentRecording \/ FetchProfiles \/ ReEnroll

SpecEnroll == InitEnroll /\ [][NextEnroll]_vars

\* C21: every recording that contributes to an enrolled reference signature
\* has first passed the deepfake classifier: in the enrollment flow a
\* recording is classified before its signature is extracted and added to
\* the samples, and a recording classified as synthetic is never aggregated
\* into the stored signature.
C21_ClassifiedBeforeEnrolled ==
    /\ \A i \in 1..Len(trace) :
          trace[i] = "extractMFCC" => \E j \in 1..(i - 1) : trace[j] = "detectDeepfake"
    /\ \A i \in 1..Len(heap.enrolled) : EnrollAnalysis[heap.enrolled[i]].isHuman
    /\ \A i \in 1..Len(heap.recorded) : EnrollAnalysis[heap.recorded[i]].isHuman

(***************************************************************************)
(* fft, statement by statement                                             *)
(*                                                                         *)
(* call holds the length and the local variables of the call, heap the two *)
(* arrays it works on in place.  An array element is held as the set of    *)
(* the input positions it was computed from; NotANumber marks a value read *)
(* from outside the array (undefined, NaN in the arithmetic).              *)
(***************************************************************************)
MaxFftLen == 16

NotANumber == NaN

\* a[idx] of a JavaScript array: undefined at and beyond a.length
ArrRead(a, idx) == IF idx < Len(a) THEN a[idx + 1] ELSE {NotANumber}

\* a[idx] = v: an assignment beyond a.length lengthens the array
ArrWrite(a, idx, v) ==
    [p \in 1..(IF idx + 1 > Len(a) THEN idx + 1 ELSE Len(a)) |->
        IF p = idx + 1 THEN v ELSE IF p <= Len(a) THEN a[p] ELSE {NotANumber}]

\* the swap of the bit-reversal stage, on one array
Swapped(a, i, j) == ArrWrite(ArrWrite(a, i, ArrRead(a, j)), j, ArrRead(a, i))

\* one butterfly: the four assignments read real and imag at evenIdx and
\* oddIdx and write them
Butterfly(arrs0, evenIdx, oddIdx) ==
    Bind(arrs0, LAMBDA arrs :
    Bind(ArrRead(arrs.real, oddIdx) \cup ArrRead(arrs.imag, oddIdx), LAMBDA t :
    Bind(ArrRead(arrs.real, evenIdx) \cup t, LAMBDA re :
    Bind(ArrRead(arrs.imag, evenIdx) \cup t, LAMBDA im :
        [real |-> ArrWrite(ArrWrite(arrs.real, oddIdx, re), evenIdx, re),
         imag |-> ArrWrite(ArrWrite(arrs.imag, oddIdx, im), evenIdx, im)]))))

\* for (i = 0; i < n; i += size) for (k = 0; k < halfSize; k++): the
\* butterflies of one stage, from block i and position k on
RECURSIVE Butterflies(_, _, _, _, _)
Butterflies(arrs, n, size, i, k) ==
    IF i >= n THEN arrs
    ELSE IF k >= size \div 2 THEN Butterflies(arrs, n, size, i + size, 0)
    ELSE Bind(Butterfly(arrs, i + k, i + k + size \div 2), LAMBDA next :
              Butterflies(next, n, size, i, k + 1))

FftInputs(n) == [real |-> [p \in 1..n |-> {p - 1}], imag |-> [p \in 1..n |-> {}]]

InitFft ==
    /\ pc = "ready"
    /\ \E n \in 0..MaxFftLen :
          /\ call = [fn |-> "fft", n |-> n, at |-> "entry", i |-> 0, j |-> 0,
                     k |-> 0, size |-> 0]
          /\ heap = FftInputs(n)
    /\ ret = NoRet
    /\ recorder = RecorderInit
    /\ dashboard = DashboardInit(Null)
    /\ trace = <<>>
    /\ tables = TablesInit

\* const n = real.length; if (n <= 1) return; let j = 0; i = 0
FftEnter ==
    /\ pc = "ready"
    /\ call.at = "entry"
    /\ IF call.n <= 1
       THEN /\ pc' = "returned"
            /\ call' = [call EXCEPT !.at = "exit"]
       ELSE /\ pc' = "running"
            /\ call' = [call EXCEPT !.at = "reverse"]
    /\ UNCHANGED <<ret, recorder, dashboard, trace, tables, heap>>

\* the head of the bit-reversal loop: while i < n - 1 the swap and
\* let k = n >> 1, and after the loop size = 2
FftReverse ==
    /\ pc = "running"
    /\ call.at = "reverse"
    /\ IF call.i < call.n - 1
       THEN /\ heap' = IF call.i < call.j
                       THEN [real |-> Swapped(heap.real, call.i, call.j),
                             imag |-> Swapped(heap.imag, call.i, call.j)]
                       ELSE heap
            /\ call' = [call EXCEPT !.at = "while", !.k = call.n \div 2]
       ELSE /\ heap' = heap
            /\ call' = [call EXCEPT !.at = "combine", !.size = 2]
    /\ UNCHANGED <<pc, ret, recorder, dashboard, trace, tables>>

\* while (k <= j) { j -= k; k >>= 1 }, one test of the condition; after
\* the loop j += k and i++
FftWhile ==
    /\ pc = "running"
    /\ call.at = "while"
    /\ IF call.k <= call.j
       THEN call' = [call EXCEPT !.j = call.j - call.k, !.k = call.k \div 2]
       ELSE call' = [call EXCEPT !.at = "reverse", !.j = call.j + call.k,
                                 !.i = call.i + 1]
    /\ UNCHANGED <<pc, ret, recorder, dashboard, trace, tables, heap>>

\* for (size = 2; size <= n; size *= 2): one stage of butterflies, and the
\* return after the last
FftCombine ==
    /\ pc = "running"
    /\ call.at = "combine"
    /\ IF call.size <= call.n
       THEN /\ heap' = Butterflies(heap, call.n, call.size, 0, 0)
            /\ call' = [call EXCEPT !.size = 2 * call.size]
            /\ pc' = pc
       ELSE /\ heap' = heap
            /\ call' = [call EXCEPT !.at = "exit"]
            /\ pc' = "returned"
    /\ UNCHANGED <<ret, recorder, dashboard, trace, tables>>

NextFft == FftEnter \/ FftReverse \/ FftWhile \/ FftCombine

SpecFft == InitFft /\ [][NextFft]_vars

\* a call that can take a step takes it
SpecFftRuns == SpecFft /\ WF_vars(NextFft)

IsPowerOfTwo(n) == \E e \in 0..n : 2^e = n

FftSpins == pc = "running" /\ call.at = "while" /\ call.k = 0 /\ call.j >= 0

\* for a power-of-two length the call never spins, and after its return
\* every element has been combined from all the inputs
FftPowerOfTwoCompletes ==
    IsPowerOfTwo(call.n) =>
        /\ ~FftSpins
        /\ pc = "returned" /\ call.n > 1 =>
              /\ Len(heap.real) = call.n /\ Len(heap.imag) = call.n
              /\ \A p \in 1..call.n : heap.real[p] = 0..(call.n - 1)

(***************************************************************************)
(* The verify-otp function                                                 *)
(*                                                                         *)
(* Each request runs the handler; the handler awaits the database three    *)
(* times, and requests interleave at these awaits.  pc, call, heap and ret *)
(* hold, per request, its position, its body, the otpRecord it selected    *)
(* and its response; tables holds otp_codes and auth_logs.                 *)
(***************************************************************************)
MaxRequests == 2

OtpRequests == 1..MaxRequests

\* the rows of otp_codes when the requests arrive: two codes sent to one user
OtpCodesInit ==
    <<[id |-> 1, user_id |-> "u1", code |-> "493817", used |-> FALSE, expired |-> FALSE],
      [id |-> 2, user_id |-> "u1", code |-> "020551", used |-> FALSE, expired |-> FALSE]>>

InitOtp ==
    /\ pc = [r \in OtpRequests |-> "received"]
    /\ call \in [OtpRequests -> [userId : {"u1"}, code : {"493817", "020551", "000000"}]]
    /\ ret = [r \in OtpRequests |-> NoRet]
    /\ heap = [r \in OtpRequests |-> Null]
    /\ tables = [otp_codes |-> OtpCodesInit, auth_logs |-> <<>>]
    /\ recorder = RecorderInit
    /\ dashboard = DashboardInit(Null)
    /\ trace = <<>>

\* the rows the select matches: user_id, code, used = false, expires_at > now
OtpMatches(rows, body) ==
    {i \in 1..Len(rows) : /\ rows[i].user_id = body.userId
                          /\ rows[i].code = body.code
                          /\ ~rows[i].used
                          /\ ~rows[i].expired}

\* order by created_at descending, limit 1, maybeSingle: the newest match
OtpSelected(rows, body) ==
    IF OtpMatches(rows, body) = {} THEN Null
    ELSE NonNull(rows[CHOOSE i \in OtpMatches(rows, body) :
                          \A k \in OtpMatches(rows, body) : k <= i])

Response(status, success) == [returned |-> TRUE, status |-> status, success |-> success]

\* the select of the handler; a fetchError is thrown and answered with 500
OtpSelect(r) ==
    /\ pc[r] = "received"
    /\ \E fetchError \in BOOLEAN :
          IF fetchError
          THEN /\ pc' = [pc EXCEPT ![r] = "responded"]
               /\ ret' = [ret EXCEPT ![r] = Response(500, FALSE)]
               /\ heap' = heap
          ELSE /\ pc' = [pc EXCEPT ![r] = "selected"]
               /\ heap' = [heap EXCEPT ![r] = OtpSelected(tables.otp_codes, call[r])]
               /\ ret' = ret
    /\ UNCHANGED <<call, recorder, dashboard, trace, tables>>

\* if (!otpRecord): the failed attempt is logged and answered with 400
OtpReject(r) ==
    /\ pc[r] = "selected"
    /\ heap[r].isNull
    /\ tables' = [tables EXCEPT !.auth_logs =
                     Append(@, [user_id |-> call[r].userId, success |-> FALSE])]
    /\ ret' = [ret EXCEPT ![r] = Response(400, FALSE)]
    /\ pc' = [pc EXCEPT ![r] = "responded"]
    /\ UNCHANGED <<call, recorder, dashboard, trace, heap>>

\* update({ used: true }).eq("id", otpRecord.id); the result of the update
\* is not looked at, so the handler goes on whether or not it was applied
OtpMarkUsed(r) ==
    /\ pc[r] = "selected"
    /\ ~heap[r].isNull
    /\ \E applied \in BOOLEAN :
          tables' = [tables EXCEPT !.otp_codes =
                        [i \in 1..Len(@) |->
                            IF applied /\ @[i].id = heap[r].v.id
                            THEN [@[i] EXCEPT !.used = TRUE] ELSE @[i]]]
    /\ pc' = [pc EXCEPT ![r] = "marked"]
    /\ UNCHANGED <<call, ret, recorder, dashboard, trace, heap>>

\* the successful verification is logged and answered with 200
OtpAccept(r) ==
    /\ pc[r] = "marked"
    /\ tables' = [tables EXCEPT !.auth_logs =
                     Append(@, [user_id |-> call[r].userId, success |-> TRUE])]
    /\ ret' = [ret EXCEPT ![r] = Response(200, TRUE)]
    /\ pc' = [pc EXCEPT ![r] = "responded"]
    /\ trace' = Append(trace, r)
    /\ UNCHANGED <<call, recorder, dashboard, heap>>

\* time passes the expires_at of a row
OtpExpire ==
    /\ \E i \in 1..Len(tables.otp_codes) :
          /\ ~tables.otp_codes[i].expired
          /\ tables' = [tables EXCEPT !.otp_codes[i].expired = TRUE]
    /\ UNCHANGED <<pc, call, ret, recorder, dashboard, trace, heap>>

NextOtp ==
    \/ \E r \in OtpRequests : OtpSelect(r) \/ OtpReject(r) \/ OtpMarkUsed(r) \/ OtpAccept(r)
    \/ OtpExpire

SpecOtp == InitOtp /\ [][NextOtp]_vars

\* the requests answered with success for the body b
Accepted(b) == {r \in OtpRequests : pc[r] = "responded" /\ ret[r].success /\ call[r] = b}

\* C26: a stored one-time code is accepted by the verify-otp function at
\* most once: after one verification request with a given userId and code
\* has succeeded, every other request with the same userId and code,
\* whether later or concurrent with the first, is rejected as invalid or
\* expired.
C26_AcceptedAtMostOnce ==
    \A r \in OtpRequests : Cardinality(Accepted(call[r])) <= 1

(***************************************************************************)
(* The VoiceRecorder component                                             *)
(*                                                                         *)
(* Times are in ticks of the component's interval (100 ms, 0.1 s added per *)
(* tick).  call holds the props, recorder the state of the hook, dashboard *)
(* the state of the component: recordingTime, whether the interval runs,   *)
(* and, for the claims, the ticks elapsed since the current recording was  *)
(* started and the number of recordings started.  trace logs the calls of  *)
(* onStop.  A state change is followed by the render and by the effects    *)
(* whose dependencies changed, which see the values of that render.        *)
(***************************************************************************)
TicksPerSecond == 10

MaxRecordings == 2

\* minDuration and maxDuration as the dashboard passes them, and the defaults
RecorderProps ==
    {[minDuration |-> 2 * TicksPerSecond, maxDuration |-> 6 * TicksPerSecond],
     [minDuration |-> 3 * TicksPerSecond, maxDuration |-> 8 * TicksPerSecond],
     [minDuration |-> 2 * TicksPerSecond, maxDuration |-> 10 * TicksPerSecond]}

InitRecorder ==
    /\ pc = "recorder"
    /\ call \in RecorderProps
    /\ ret = NoRet
    /\ recorder = RecorderInit
    /\ dashboard = [recordingTime |-> 0, interval |-> FALSE, elapsed |-> 0,
                    recordings |-> 0]
    /\ trace = <<>>
    /\ tables = TablesInit
    /\ heap = NoObjects

\* onStop(): the call is logged; the handler of the dashboard stops the
\* recording, and the effect on isRecording clears the interval
OnStop(how, time, elapsed) ==
    /\ trace' = Append(trace, [how |-> how, recordingTime |-> time, elapsed |-> elapsed])
    /\ recorder' = [recorder EXCEPT !.isRecording = FALSE]

\* handleClick while no recording runs: onStart() sets isRecording.  In the
\* render that follows recordingTime still has the value the last recording
\* left; the effect on isRecording resets it to 0 and starts the interval,
\* and the auto-stop effect, run for the same render, compares the value
\* it was rendered with
ClickStart ==
    /\ pc = "recorder"
    /\ ~recorder.isRecording
    /\ dashboard.recordings < MaxRecordings
    /\ IF dashboard.recordingTime >= call.maxDuration
       THEN /\ OnStop("auto", dashboard.recordingTime, 0)
            /\ dashboard' = [dashboard EXCEPT !.recordingTime = 0, !.interval = FALSE,
                                              !.elapsed = 0, !.recordings = @ + 1]
       ELSE /\ recorder' = [recorder EXCEPT !.isRecording = TRUE]
            /\ dashboard' = [dashboard EXCEPT !.recordingTime = 0, !.interval = TRUE,
                                              !.elapsed = 0, !.recordings = @ + 1]
            /\ trace' = trace
    /\ UNCHANGED <<pc, call, ret, tables, heap>>

\* a tick of the interval: recordingTime = min(prev + 0.1, maxDuration), the
\* interval cleared at maxDuration; then the auto-stop effect
Tick ==
    /\ pc = "recorder"
    /\ recorder.isRecording
    /\ dashboard.interval
    /\ \E next \in {IF dashboard.recordingTime + 1 < call.maxDuration
                    THEN dashboard.recordingTime + 1 ELSE call.maxDuration} :
          IF next >= call.maxDuration
          THEN /\ OnStop("auto", next, dashboard.elapsed + 1)
               /\ dashboard' = [dashboard EXCEPT !.recordingTime = next,
                                                 !.interval = FALSE,
                                                 !.elapsed = @ + 1]
          ELSE /\ dashboard' = [dashboard EXCEPT !.recordingTime = next,
                                                 !.elapsed = @ + 1]
               /\ UNCHANGED <<recorder, trace>>
    /\ UNCHANGED <<pc, call, ret, tables, heap>>

\* handleClick while a recording runs: onStop() if recordingTime >= minDuration
ClickStop ==
    /\ pc = "recorder"
    /\ recorder.isRecording
    /\ dashboard.recordingTime >= call.minDuration
    /\ OnStop("click", dashboard.recordingTime, dashboard.elapsed)
    /\ dashboard' = [dashboard EXCEPT !.interval = FALSE]
    /\ UNCHANGED <<pc, call, ret, tables, heap>>

NextRecorder == ClickStart \/ Tick \/ ClickStop

SpecRecorder == InitRecorder /\ [][NextRecorder]_vars

\* C27: for every recording, including a recording started after an earlier
\* one has ended, the component invokes onStop only when the elapsed time
\* of that recording is at least minDuration (manual click) or has reached
\* maxDuration (automatic stop); the elapsed time of a recording starts
\* from 0 and never exceeds maxDuration.
C27_StopsWithinDuration ==
    /\ \A i \in 1..Len(trace) :
          /\ trace[i].how = "click" => trace[i].elapsed >= call.minDuration
          /\ trace[i].how = "auto" => trace[i].elapsed >= call.maxDuration
          /\ trace[i].elapsed <= call.maxDuration
    /\ dashboard.elapsed <= call.maxDuration
    /\ recorder.isRecording => dashboard.recordingTime = dashboard.elapsed

(***************************************************************************)
(* initializeSpeakerModel, in the two versions of speakerEmbedding.ts      *)
(*                                                                         *)
(* tables holds the module-level singletons (pipeline loaded, isLoading,   *)
(* loadPromise) and which version of the module runs; heap the model loads *)
(* started, each with its state and the calls that await it in the order   *)
(* in which they began to wait; pc, call and ret, per call, its position,  *)
(* the load it awaits and what its promise settled to; trace the           *)
(* continuations that are ready to run, first in first out.  The           *)
(* synchronous part of a call runs without interruption, and the           *)
(* continuations of a settled load run before any new call.  onProgress    *)
(* returns normally and makes no call of its own.                          *)
(***************************************************************************)
MaxModelCalls == 3

ModelCalls == 1..MaxModelCalls

InitSpeaker ==
    /\ pc = [c \in ModelCalls |-> "idle"]
    /\ call = [c \in ModelCalls |-> [awaits |-> 0]]
    /\ ret = [c \in ModelCalls |-> NoRet]
    /\ \E version \in {1, 2} :
          tables = [version |-> version, pipeline |-> FALSE, isLoading |-> FALSE,
                    loadPromise |-> Null]
    /\ heap = <<>>
    /\ trace = <<>>
    /\ recorder = RecorderInit
    /\ dashboard = DashboardInit(Null)

\* the call returns (its promise is fulfilled with) the boolean b
Resolves(c, b) ==
    /\ pc' = [pc EXCEPT ![c] = "resolved"]
    /\ ret' = [ret EXCEPT ![c] = Returned(b)]

\* the call begins to wait for load p
Awaits(c, p) ==
    /\ pc' = [pc EXCEPT ![c] = "waiting"]
    /\ call' = [call EXCEPT ![c] = [awaits |-> p]]
    /\ ret' = ret

InitializeSpeakerModel_NoGuard(c) ==
    /\ pc[c] = "idle"
    /\ trace = <<>>
    /\ IF tables.pipeline
       THEN /\ Resolves(c, TRUE)
            /\ UNCHANGED <<call, tables, heap>>
       ELSE /\ tables' = [tables EXCEPT !.isLoading = TRUE,
                                        !.loadPromise = NonNull(Len(heap) + 1)]
            /\ heap' = Append(heap, [state |-> "pending", awaiters |-> <<c>>])
            /\ pc' = [pc EXCEPT ![c] = "loading"]
            /\ call' = [call EXCEPT ![c] = [awaits |-> Len(heap) + 1]]
            /\ ret' = ret
    /\ UNCHANGED <<recorder, dashboard, trace>>

\* a call of initializeSpeakerModel up to its first await: true at once if
\* the pipeline is loaded; if a load is in flight the call waits for it;
\* otherwise isLoading is set, the load is started and awaited
InitializeSpeakerModel(c) ==
    /\ pc[c] = "idle"
    /\ trace = <<>>
    /\ IF tables.pipeline
       THEN /\ Resolves(c, TRUE)
            /\ UNCHANGED <<call, tables, heap>>
       ELSE IF tables.isLoading /\ ~tables.loadPromise.isNull
       THEN /\ Awaits(c, tables.loadPromise.v)
            /\ heap' = [heap EXCEPT ![tables.loadPromise.v].awaiters = Append(@, c)]
            /\ tables' = tables
       ELSE /\ tables' = [tables EXCEPT !.isLoading = TRUE,
                                        !.loadPromise = NonNull(Len(heap) + 1)]
            /\ heap' = Append(heap, [state |-> "pending", awaiters |-> <<c>>])
            /\ pc' = [pc EXCEPT ![c] = "loading"]
            /\ call' = [call EXCEPT ![c] = [awaits |-> Len(heap) + 1]]
            /\ ret' = ret
    /\ UNCHANGED <<recorder, dashboard, trace>>

\* the promise of pipeline(...) settles: the calls that await the load are
\* ready to continue, in the order in which they began to wait
LoadSettles ==
    /\ trace = <<>>
    /\ \E p \in 1..Len(heap) :
          /\ heap[p].state = "pending"
          /\ \E state \in {"fulfilled", "rejected"} :
                heap' = [heap EXCEPT ![p].state = state]
          /\ trace' = heap[p].awaiters
    /\ UNCHANGED <<pc, call, ret, recorder, dashboard, tables>>

\* the call that started the load continues: the pipeline is stored or the
\* error is caught, the call returns true or false, and finally isLoading
\* is cleared (and, in the first version, loadPromise)
LoaderContinues ==
    /\ trace # <<>>
    /\ pc[Head(trace)] = "loading"
    /\ Resolves(Head(trace), heap[call[Head(trace)].awaits].state = "fulfilled")
    /\ tables' = [tables EXCEPT
                     !.pipeline = heap[call[Head(trace)].awaits].state = "fulfilled",
                     !.isLoading = FALSE,
                     !.loadPromise = IF tables.version = 1 THEN Null ELSE @]
    /\ trace' = Tail(trace)
    /\ UNCHANGED <<call, recorder, dashboard, heap>>

\* a call that waited for another call's load continues.  First version:
\* await loadPromise, outside any try, then return !!extractorPipeline.
\* Second version: the call has returned the promise of the loading call
\* and settles as that one did
WaiterContinues ==
    /\ trace # <<>>
    /\ pc[Head(trace)] = "waiting"
    /\ IF tables.version = 1
       THEN IF heap[call[Head(trace)].awaits].state = "rejected"
            THEN /\ pc' = [pc EXCEPT ![Head(trace)] = "rejected"]
                 /\ ret' = [ret EXCEPT ![Head(trace)] = Thrown("load error")]
            ELSE Resolves(Head(trace), tables.pipeline)
       ELSE Resolves(Head(trace), heap[call[Head(trace)].awaits].state = "fulfilled")
    /\ trace' = Tail(trace)
    /\ UNCHANGED <<call, recorder, dashboard, tables, heap>>

NextSpeaker ==
    \/ \E c \in ModelCalls : InitializeSpeakerModel(c)
    \/ LoadSettles
    \/ LoaderContinues
    \/ WaiterContinues

SpecSpeaker == InitSpeaker /\ [][NextSpeaker]_vars

LoadsInFlight == {p \in 1..Len(heap) : heap[p].state = "pending"}

\* C28: every call to initializeSpeakerModel resolves to a boolean and never
\* rejects: a call made while another call's model load is in flight
\* resolves to true if that load succeeds and to false if that load fails,
\* the same value the loading call returns.
C28_NeverRejects ==
    \A c \in ModelCalls :
        /\ pc[c] # "rejected"
        /\ pc[c] = "resolved" =>
              /\ ~ret[c].threw
              /\ ret[c].value \in BOOLEAN
              /\ call[c].awaits # 0 =>
                    ret[c].value = (heap[call[c].awaits].state = "fulfilled")

\* C29: under any interleaving of calls to initializeSpeakerModel, at most
\* one model load is in flight at any time and no load is started once the
\* pipeline is loaded; after a failed load the loading flag is cleared so
\* that a later call starts a new load.
C29_OneLoadInFlight ==
    /\ Cardinality(LoadsInFlight) <= 1
    /\ tables.pipeline => LoadsInFlight = {}
    /\ (LoadsInFlight = {} /\ trace = <<>>) => ~tables.isLoading
    /\ \A c \in ModelCalls :
          (pc[c] = "waiting" /\ trace = <<>>) => call[c].awaits \in LoadsInFlight

\* a first load has failed, its flag was cleared, and a later call has
\* started a second load, for which a third call waits
C29_Witness ==
    /\ Len(heap) = 2
    /\ heap[1].state = "rejected"
    /\ heap[2].state = "pending"
    /\ Len(heap[2].awaiters) = 2
    /\ tables.isLoading
    /\ ~tables.pipeline

(***************************************************************************)
(* A legacy array converted and used as the stored signature               *)
(***************************************************************************)
\* the test signatures: well-formed ones, and what extractVoiceSignature
\* returns for an empty buffer, for a silent one and for a short recording
LegacyTestSigs ==
    SelfSigs
    \cup {extractVoiceSignature(Buffer(a, 0)) :
             a \in {Audio(<<>>, 0), Audio(<<"silence", "silence">>, 0),
                    Audio(<<"tone", "breath", "silence", "pulses">>, 7)}}

\* test is a signature, or "same" for the converted signature itself
LegacyVerifyCalls ==
    {[fn |-> "convertLegacySignature", legacy |-> NumberArray(a), test |-> t] :
        a \in LegacyArrays, t \in {NonNull(x) : x \in LegacyTestSigs} \cup {Null}}

InitLegacy ==
    /\ pc = "ready"
    /\ call \in LegacyVerifyCalls
    /\ ret = NoRet
    /\ AppIdle

\* the stored bare array is converted
ConvertLegacySignature ==
    /\ pc = "ready"
    /\ call.fn = "convertLegacySignature"
    /\ ret' = Returned(LoadedSig(convertLegacySignature(call.legacy)))
    /\ pc' = "converted"
    /\ UNCHANGED <<call, recorder, dashboard, trace, tables, heap>>

\* the test signature, or the converted one itself, is verified against the
\* converted signature under the default threshold
VerifyAgainstLegacy ==
    /\ pc = "converted"
    /\ \E test \in {IF call.test.isNull THEN ret.value ELSE call.test.v} :
          ret' = [stored |-> ret.value,
                  test |-> test,
                  deltaSim |-> cosineSimilarity(test.deltaMean, ret.value.deltaMean),
                  result |-> verifyVoiceStrict(test, ret.value, Undefined)]
    /\ pc' = "verified"
    /\ UNCHANGED <<call, recorder, dashboard, trace, tables, heap>>

NextLegacy == ConvertLegacySignature \/ VerifyAgainstLegacy

SpecLegacy == InitLegacy /\ [][NextLegacy]_vars

============================================================================
